---- MODULE Spec2Model ----
(***************************************************************************)
(* Model of eco-go/src/lib/metrics.ts: the commune resolver, the source    *)
(* adapters, the electricity/gas year fallback with its process-wide       *)
(* circuit breaker, and the aggregator buildMetricsForCity.                *)
(*                                                                         *)
(* Conventions.                                                            *)
(*   - A nullable value (T | null) is a set: {} is null, {v} is the value. *)
(*   - A JS string that the code inspects character by character is a      *)
(*     sequence of one-character strings; a string that is only compared   *)
(*     or matched against a pattern is a TLA+ string.                      *)
(*   - A parsed JSON value is a tagged record (JNull, JNum, JStr, JBool,   *)
(*     JArr, JObj); JUndef is JavaScript's undefined.                      *)
(*   - A per-capita quotient is an exact fraction [n, d] in lowest terms.  *)
(***************************************************************************)
EXTENDS Integers, Sequences, FiniteSets, TLC

(***************************************************************************)
(* Bounds of the model.                                                    *)
(***************************************************************************)
\* largest events count an upstream answers
MaxCount == 1
\* largest population given to a direct fetchElecGasPerHab call
MaxPopulation == 2
\* largest number of candidates the registry answers to the resolver
MaxCandidates == 3
\* largest digit in the last three places of an INSEE code of SpecBands
MaxDigit == 4

(***************************************************************************)
(* Nullable values.                                                        *)
(***************************************************************************)
Null == {}
Some(v) == {v}
IsNull(o) == o = {}
Val(o) == CHOOSE v \in o : TRUE

(***************************************************************************)
(* Parsed JSON values.                                                     *)
(***************************************************************************)
JUndef == [t |-> "undefined"]
JNull == [t |-> "null"]
JNum(n) == [t |-> "num", n |-> n]
JStr(s) == [t |-> "str", s |-> s]
JBool(b) == [t |-> "bool", b |-> b]
JArr(a) == [t |-> "arr", a |-> a]
\* an object: the sequence of its [k, v] members, in insertion order
JObj(m) == [t |-> "obj", m |-> m]
Member(k, v) == [k |-> k, v |-> v]

\* v?.[k] for a property name k
Get(v, k) ==
    IF v.t = "obj" /\ \E i \in 1..Len(v.m) : v.m[i].k = k
    THEN v.m[CHOOSE i \in 1..Len(v.m) : v.m[i].k = k].v
    ELSE JUndef

\* v?.[0]
Get0(v) ==
    IF v.t = "arr" /\ Len(v.a) > 0 THEN v.a[1]
    ELSE IF v.t = "str" /\ v.s # "" THEN JStr("?")
    ELSE JUndef

\* JavaScript truthiness of a parsed JSON value
Truthy(v) ==
    CASE v.t = "undefined" -> FALSE
      [] v.t = "null" -> FALSE
      [] v.t = "num" -> v.n # 0
      [] v.t = "str" -> v.s # ""
      [] v.t = "bool" -> v.b
      [] OTHER -> TRUE

\* Number(s) for the strings of the model: a decimal literal, the empty
\* string (0), or a text that is not a number (NaN, here Null)
StrToNumber(s) ==
    CASE s = "" -> Some(0)
      [] s = "0" -> Some(0)
      [] s = "1" -> Some(1)
      [] s = "2" -> Some(2)
      [] s = "40" -> Some(40)
      [] OTHER -> Null

\* Number(v), Null standing for NaN
ToNumber(v) ==
    CASE v.t = "num" -> Some(v.n)
      [] v.t = "null" -> Some(0)
      [] v.t = "bool" -> Some(IF v.b THEN 1 ELSE 0)
      [] v.t = "str" -> StrToNumber(v.s)
      \* an array of the model is empty or holds objects
      [] v.t = "arr" -> IF Len(v.a) = 0 THEN Some(0) ELSE Null
      [] OTHER -> Null

\* metrics.ts pickNumber: the number, or null when it is not finite
pickNumber(v) == IF v.t = "num" THEN Some(v.n) ELSE ToNumber(v)

(***************************************************************************)
(* Strings read character by character, and 32-bit arithmetic.  A 32-bit   *)
(* unsigned integer is the sequence of its four bytes, lowest first, and a *)
(* larger natural number is a longer such sequence.                        *)
(***************************************************************************)
Lower == <<"a", "b", "c", "d", "e", "f", "g", "h", "i", "j", "k", "l", "m",
           "n", "o", "p", "q", "r", "s", "t", "u", "v", "w", "x", "y", "z">>
Upper == <<"A", "B", "C", "D", "E", "F", "G", "H", "I", "J", "K", "L", "M",
           "N", "O", "P", "Q", "R", "S", "T", "U", "V", "W", "X", "Y", "Z">>
Digit == <<"0", "1", "2", "3", "4", "5", "6", "7", "8", "9">>

IndexIn(seq, c) == CHOOSE i \in 1..Len(seq) : seq[i] = c

\* String.prototype.charCodeAt for the characters of the model
charCodeAt(c) ==
    IF \E i \in 1..26 : Lower[i] = c THEN 96 + IndexIn(Lower, c)
    ELSE IF \E i \in 1..26 : Upper[i] = c THEN 64 + IndexIn(Upper, c)
    ELSE IF \E i \in 1..10 : Digit[i] = c THEN 47 + IndexIn(Digit, c)
    ELSE CASE c = " " -> 32
           [] c = "-" -> 45
           [] c = ":" -> 58
           [] OTHER -> 63

RECURSIVE XorBits(_, _, _)
XorBits(a, b, n) ==
    IF n = 0 THEN 0
    ELSE (((a % 2) + (b % 2)) % 2) + 2 * XorBits(a \div 2, b \div 2, n - 1)

\* the bytes of ds * k + carry, lowest first (k a small natural number)
RECURSIVE MulSmall(_, _, _)
MulSmall(ds, k, carry) ==
    IF ds = <<>>
    THEN IF carry = 0 THEN <<>>
         ELSE <<carry % 256>> \o MulSmall(<<>>, k, carry \div 256)
    ELSE LET t == Head(ds) * k + carry
         IN  <<t % 256>> \o MulSmall(Tail(ds), k, t \div 256)

\* byte i (from 1) of a byte sequence, 0 beyond its end
ByteAt(ds, i) == IF i <= Len(ds) THEN ds[i] ELSE 0

\* the value of a short byte sequence
RECURSIVE BytesValue(_)
BytesValue(ds) == IF ds = <<>> THEN 0 ELSE Head(ds) + 256 * BytesValue(Tail(ds))

FNV_OFFSET == <<197, 157, 28, 129>>
FNV_PRIME_LOW == 403

\* h ^= code, for a 16-bit character code
XorCode(h, code) ==
    <<XorBits(h[1], code % 256, 8), XorBits(h[2], code \div 256, 8), h[3], h[4]>>

\* variant: the product kept beyond 32 bits
imulPrimeUnwrapped(h) ==
    LET m == MulSmall(h, FNV_PRIME_LOW, 0)
    IN  <<ByteAt(m, 1), ByteAt(m, 2), ByteAt(m, 3), (ByteAt(m, 4) + h[1]) % 256,
          ByteAt(m, 5) + h[2] + (ByteAt(m, 4) + h[1]) \div 256>>

\* Math.imul(h, 0x01000193): h * (2^24 + 0x193) modulo 2^32
imulPrime(h) ==
    LET m == MulSmall(h, FNV_PRIME_LOW, 0)
    IN  <<ByteAt(m, 1), ByteAt(m, 2), ByteAt(m, 3), (ByteAt(m, 4) + h[1]) % 256>>

\* the loop of lines 58-61 from character i on (h is compared with itself so
\* that it is computed before the next round, not kept as a pending term)
RECURSIVE fnv1a(_, _, _)
fnv1a(h, input, i) ==
    IF i > Len(input) \/ h # h THEN h
    ELSE fnv1a(imulPrime(XorCode(h, charCodeAt(input[i]))), input, i + 1)

\* metrics.ts hashUnitInterval: the numerator h of h / 2^32, as four bytes
hashUnitInterval(input) == fnv1a(FNV_OFFSET, input, 1)

\* Math.round(base + r * span) for r = h / 2^32 and integers base, span:
\* base + floor((h * span + 2^31) / 2^32), exact in double precision
RoundBand(h, base, span) ==
    LET p == MulSmall(h, span, 0)
        hi == <<ByteAt(p, 4), ByteAt(p, 5), ByteAt(p, 6), ByteAt(p, 7)>>
    IN  base + (BytesValue(hi) + 128) \div 256

\* floor(r * span) for r = h / 2^32
FloorBand(h, span) ==
    LET p == MulSmall(h, span, 0)
    IN  BytesValue(<<ByteAt(p, 5), ByteAt(p, 6), ByteAt(p, 7)>>)

(***************************************************************************)
(* Exact fractions, for the per-capita quotients.                          *)
(***************************************************************************)
RECURSIVE GCD(_, _)
GCD(a, b) == IF b = 0 THEN a ELSE GCD(b, a % b)

\* n / d for n >= 0 and d > 0
Ratio(n, d) == LET g == GCD(n, d) IN [n |-> n \div g, d |-> d \div g]
Whole(n) == [n |-> n, d |-> 1]
RatioGreater(q, k) == q.n > k * q.d

(***************************************************************************)
(* The department table.                                                   *)
(***************************************************************************)
IDF_DEPTS ==
    [c \in {"75", "77", "78", "91", "92", "93", "94", "95"} |->
        CASE c = "75" -> "Paris"
          [] c = "77" -> "Seine-et-Marne"
          [] c = "78" -> "Yvelines"
          [] c = "91" -> "Essonne"
          [] c = "92" -> "Hauts-de-Seine"
          [] c = "93" -> "Seine-Saint-Denis"
          [] c = "94" -> "Val-de-Marne"
          [] c = "95" -> "Val-d'Oise"]

\* IDF_DEPTS[code] is truthy
InIdF(code) == code \in DOMAIN IDF_DEPTS

(***************************************************************************)
(* safeJson.  The outcome of fetch(url) followed by res.text():            *)
(*   neterr   fetch or res.text() rejects                                  *)
(*   status   a response whose res.ok is false                             *)
(*   notjson  an OK response whose text JSON.parse rejects                 *)
(*   json     an OK response whose text parses to body                     *)
(* The result is [threw, val]: threw says that the call rejects, val is    *)
(* the value it resolves to otherwise.                                     *)
(***************************************************************************)
NetErr == [kind |-> "neterr"]
BadStatus(st) == [kind |-> "status", status |-> st]
NotJson == [kind |-> "notjson"]
Json(body) == [kind |-> "json", body |-> body]

Returns(v) == [threw |-> FALSE, val |-> v]
Throws == [threw |-> TRUE, val |-> JNull]

\* safeJson without its outer try/catch: a network fault escapes
safeJsonNoCatch(outcome) ==
    CASE outcome.kind = "neterr" -> Throws
      [] outcome.kind = "status" -> Returns(JNull)
      [] outcome.kind = "notjson" -> Returns(JNull)
      [] OTHER -> Returns(outcome.body)

safeJson(outcome) ==
    CASE outcome.kind = "neterr" -> Returns(JNull)
      [] outcome.kind = "status" -> Returns(JNull)
      [] outcome.kind = "notjson" -> Returns(JNull)
      [] OTHER -> Returns(outcome.body)

\* odsCount, from the outcome of its one request
odsCount(outcome) ==
    LET data == safeJson(outcome)
    IN  IF data.threw THEN Throws
        ELSE Returns(pickNumber(Get(Get0(Get(data.val, "results")), "c")))

(***************************************************************************)
(* Column detection.  A pattern is named by its source text; RxTest gives  *)
(* the outcome of rx.test(name) for the column names of the model.         *)
(***************************************************************************)
ColumnNames ==
    {"filiere", "type_energie", "consommation_mwh", "consommation_kwh",
     "conso_mwh", "conso_kwh", "Conso_MWh", "CONSO_KWH", "consommation", "conso",
     "annee", "valeur"}

RxTest(rx, name) ==
    CASE rx = "filiere" -> name \in {"filiere"}
      [] rx = "energie" -> name \in {"type_energie"}
      [] rx = "consommation.*mwh" -> name \in {"consommation_mwh"}
      [] rx = "consommation.*kwh" -> name \in {"consommation_kwh"}
      [] rx = "conso.*mwh" -> name \in {"consommation_mwh", "conso_mwh", "Conso_MWh"}
      [] rx = "conso.*kwh" -> name \in {"consommation_kwh", "conso_kwh", "CONSO_KWH"}
      [] rx = "consommation" ->
            name \in {"consommation_mwh", "consommation_kwh", "consommation"}
      [] rx = "conso" ->
            name \in {"consommation_mwh", "consommation_kwh", "conso_mwh",
                      "conso_kwh", "Conso_MWh", "CONSO_KWH", "consommation", "conso"}
      [] rx = "mwh" -> name \in {"consommation_mwh", "conso_mwh", "Conso_MWh"}
      [] rx = "kwh" -> name \in {"consommation_kwh", "conso_kwh", "CONSO_KWH"}
      [] OTHER -> FALSE

FILIERE_PATTERNS == <<"filiere", "energie">>
\* variant: the two MWh patterns before the two kWh patterns
CONSO_PATTERNS_MWH_FIRST ==
    <<"consommation.*mwh", "conso.*mwh", "consommation.*kwh", "conso.*kwh",
      "consommation", "conso">>
CONSO_PATTERNS ==
    <<"consommation.*mwh", "consommation.*kwh", "conso.*mwh", "conso.*kwh",
      "consommation", "conso">>

\* names.find((n) => rx.test(n)): the first matching name, or null
RECURSIVE FindName(_, _)
FindName(names, rx) ==
    IF names = <<>> THEN Null
    ELSE IF RxTest(rx, Head(names)) THEN Some(Head(names))
    ELSE FindName(Tail(names), rx)

\* variant: the first name that matches any pattern
RECURSIVE findFieldByNameOrder(_, _)
findFieldByNameOrder(names, regexes) ==
    IF names = <<>> THEN Null
    ELSE IF \E i \in 1..Len(regexes) : RxTest(regexes[i], Head(names))
         THEN Some(Head(names))
         ELSE findFieldByNameOrder(Tail(names), regexes)

\* metrics.ts findField over the (non-empty) names, in their order
RECURSIVE findField(_, _)
findField(names, regexes) ==
    IF regexes = <<>> THEN Null
    ELSE LET found == FindName(names, Head(regexes))
         IN  IF ~IsNull(found) THEN found ELSE findField(names, Tail(regexes))

\* Object.keys(row ?? {}) without the empty name (filter(Boolean))
RECURSIVE MemberNames(_)
MemberNames(m) ==
    IF m = <<>> THEN <<>>
    ELSE (IF Head(m).k = "" THEN <<>> ELSE <<Head(m).k>>) \o MemberNames(Tail(m))

FieldNames(row) == IF row.t = "obj" THEN MemberNames(row.m) ELSE <<>>

\* String(cell ?? "").toLowerCase().includes(sub), for the carrier labels of
\* the model
FiliereText(cell) ==
    CASE cell.t = "str" -> cell.s
      [] cell.t = "undefined" -> ""
      [] cell.t = "null" -> ""
      [] OTHER -> "?"

FiliereIncludes(text, sub) ==
    CASE sub = "gaz" -> text \in {"Gaz", "Electricite et gaz"}
      [] sub = "elec" -> text \in {"Electricite", "Electricite et gaz"}
      [] sub = "electric" -> text \in {"Electricite", "Electricite et gaz"}
      [] OTHER -> FALSE

IsGas(text) == FiliereIncludes(text, "gaz")
IsElec(text) ==
    \/ FiliereIncludes(text, "elec")
    \/ FiliereIncludes(text, "e-acute-lec")
    \/ FiliereIncludes(text, "electric")

(***************************************************************************)
(* fetchElecGasPerHab, after its request.                                  *)
(***************************************************************************)
IMPLAUSIBLE_ABOVE == 20000
MWH_TO_KWH == 1000

NoEnergy == [elecKwhPerHab |-> Null, gasKwhPerHab |-> Null]

\* variant: the ceiling itself is discarded too
clampAtCeiling(v) ==
    IF RatioGreater(v, IMPLAUSIBLE_ABOVE) \/ v = Whole(IMPLAUSIBLE_ABOVE)
    THEN Null ELSE Some(v)

\* const clamp = (v) => (v > 20000 ? null : v)
clamp(v) == IF RatioGreater(v, IMPLAUSIBLE_ABOVE) THEN Null ELSE Some(v)

\* variant: the value taken as kWh whatever the column
RowKwhUnscaled(r, consoField) ==
    LET picked == pickNumber(Get(r, consoField))
    IN  IF IsNull(picked) THEN 0 ELSE Val(picked)

\* the kWh of one row
RowKwh(r, consoField) ==
    LET picked == pickNumber(Get(r, consoField))
        raw == IF IsNull(picked) THEN 0 ELSE Val(picked)
    IN  IF RxTest("kwh", consoField) THEN raw ELSE raw * MWH_TO_KWH

\* the sum of the kWh of the rows of one carrier ("elec" or "gas")
RECURSIVE SumKwh(_, _, _, _)
SumKwh(rows, filiereField, consoField, carrier) ==
    IF rows = <<>> THEN 0
    ELSE LET fil == FiliereText(Get(Head(rows), filiereField))
             counts == IF carrier = "gas" THEN IsGas(fil) ELSE IsElec(fil)
         IN  (IF counts THEN RowKwh(Head(rows), consoField) ELSE 0)
             + SumKwh(Tail(rows), filiereField, consoField, carrier)

\* lines 175-210: the result computed from a truthy response body
EnergyFromData(data, population) ==
    LET results == Get(data, "results")
        rows == IF results.t = "arr" THEN results.a ELSE <<>>
        names == FieldNames(rows[1])
        filiereField == findField(names, FILIERE_PATTERNS)
        consoField == findField(names, CONSO_PATTERNS)
    IN  IF rows = <<>> THEN NoEnergy
        ELSE IF IsNull(filiereField) \/ IsNull(consoField) THEN NoEnergy
        ELSE IF IsNull(population) \/ Val(population) <= 0 THEN NoEnergy
        ELSE LET pop == Val(population)
                 elecKwh == SumKwh(rows, Val(filiereField), Val(consoField), "elec")
                 gasKwh == SumKwh(rows, Val(filiereField), Val(consoField), "gas")
             IN  [elecKwhPerHab |-> clamp(Ratio(elecKwh, pop)),
                  gasKwhPerHab |-> clamp(Ratio(gasKwh, pop))]

\* lines 175-210: the return statement that gives that result
ExitFromData(data, population) ==
    LET results == Get(data, "results")
        rows == IF results.t = "arr" THEN results.a ELSE <<>>
        names == FieldNames(rows[1])
    IN  IF rows = <<>> THEN "norows"
        ELSE IF \/ IsNull(findField(names, FILIERE_PATTERNS))
                \/ IsNull(findField(names, CONSO_PATTERNS)) THEN "nocolumns"
        ELSE IF IsNull(population) \/ Val(population) <= 0 THEN "nopopulation"
        ELSE "computed"

(***************************************************************************)
(* resolveCommuneIdF.  A candidate of the registry is a record             *)
(*   [nom, code, population, departement]                                  *)
(* whose population is a number or absent (Null) and whose departement is  *)
(* the department code ("" when absent).                                   *)
(***************************************************************************)
\* white space, for the characters of the model
IsSpace(c) == c \in {" ", "\t", "\n"}

RECURSIVE TrimStart(_)
TrimStart(s) ==
    IF s # <<>> /\ IsSpace(Head(s)) THEN TrimStart(Tail(s)) ELSE s

RECURSIVE TrimEnd(_)
TrimEnd(s) ==
    IF s # <<>> /\ IsSpace(s[Len(s)]) THEN TrimEnd(SubSeq(s, 1, Len(s) - 1)) ELSE s

\* variant: the input taken as it is
trimNone(s) == s

\* String.prototype.trim
trim(s) == TrimEnd(TrimStart(s))

\* c?.population ?? 0
PopulationOrZero(c) == IF IsNull(c.population) THEN 0 ELSE Val(c.population)

\* list.filter((c) => IDF_DEPTS[c?.departement?.code])
RECURSIVE FilterIdF(_)
FilterIdF(list) ==
    IF list = <<>> THEN <<>>
    ELSE (IF InIdF(Head(list).departement) THEN <<Head(list)>> ELSE <<>>)
         \o FilterIdF(Tail(list))

\* variant: x goes before the candidates of equal population
RECURSIVE InsertByPopulationBeforeEquals(_, _)
InsertByPopulationBeforeEquals(x, sorted) ==
    IF sorted = <<>> THEN <<x>>
    ELSE IF PopulationOrZero(Head(sorted)) > PopulationOrZero(x)
         THEN <<Head(sorted)>> \o InsertByPopulationBeforeEquals(x, Tail(sorted))
         ELSE <<x>> \o sorted

\* x put into a list sorted by descending population, behind its equals
RECURSIVE InsertByPopulation(_, _)
InsertByPopulation(x, sorted) ==
    IF sorted = <<>> THEN <<x>>
    ELSE IF PopulationOrZero(Head(sorted)) >= PopulationOrZero(x)
         THEN <<Head(sorted)>> \o InsertByPopulation(x, Tail(sorted))
         ELSE <<x>> \o sorted

\* matches.sort((a, b) => (b?.population ?? 0) - (a?.population ?? 0)),
\* a stable sort
RECURSIVE SortByPopulation(_)
SortByPopulation(list) ==
    IF list = <<>> THEN <<>>
    ELSE InsertByPopulation(list[Len(list)],
                            SortByPopulation(SubSeq(list, 1, Len(list) - 1)))

\* variant: the candidates are not filtered by department
CommuneFromListUnfiltered(list) ==
    IF list.t # "arr" \/ Len(list.a) = 0 THEN Null
    ELSE LET c == SortByPopulation(list.a)[1]
         IN  Some([nom |-> c.nom,
                   insee |-> c.code,
                   population |-> c.population,
                   departementNom |->
                       IF InIdF(c.departement) THEN IDF_DEPTS[c.departement] ELSE ""])

\* lines 125-141: the commune resolved from the value safeJson returned
CommuneFromList(list) ==
    IF list.t # "arr" \/ Len(list.a) = 0 THEN Null
    ELSE LET matches == FilterIdF(list.a)
         IN  IF matches = <<>> THEN Null
             ELSE LET c == SortByPopulation(matches)[1]
                  IN  Some([nom |-> c.nom,
                            insee |-> c.code,
                            population |-> c.population,
                            departementNom |-> IDF_DEPTS[c.departement]])

(***************************************************************************)
(* The synthetic adapters.                                                 *)
(***************************************************************************)
\* variant: the population is part of the hashed text
fetchWaterWasteFuelPlaceholdersByPopulation(insee, population) ==
    LET seed == insee \o (IF IsNull(population) THEN <<>> ELSE <<"+">>)
    IN  [waterLPerHab |->
            RoundBand(hashUnitInterval(seed \o <<":", "w", "a", "t", "e", "r">>), 38000, 42000),
         wasteKgPerHab |->
            RoundBand(hashUnitInterval(seed \o <<":", "w", "a", "s", "t", "e">>), 240, 260),
         fuelLPerHab |->
            RoundBand(hashUnitInterval(seed \o <<":", "f", "u", "e", "l">>), 220, 380),
         waterEstimated |-> TRUE,
         wasteEstimated |-> TRUE,
         fuelEstimated |-> TRUE]

fetchWaterWasteFuelPlaceholders(insee, population) ==
    [waterLPerHab |->
        RoundBand(hashUnitInterval(insee \o <<":", "w", "a", "t", "e", "r">>), 38000, 42000),
     wasteKgPerHab |->
        RoundBand(hashUnitInterval(insee \o <<":", "w", "a", "s", "t", "e">>), 240, 260),
     fuelLPerHab |->
        RoundBand(hashUnitInterval(insee \o <<":", "f", "u", "e", "l">>), 220, 380),
     waterEstimated |-> TRUE,
     wasteEstimated |-> TRUE,
     fuelEstimated |-> TRUE]

\* !population || population <= 0
NoPopulation(population) == IsNull(population) \/ Val(population) <= 0

\* parseFloat((2.5 * (0.85 + r * 0.3)).toFixed(2)), in hundredths of a ton:
\* round(212.5 + 75 r) = 213 + floor(75 r)
\* variant: only a missing population gives null (population == null)
fetchGesEmissionsUnlessMissing(communeName, population) ==
    IF IsNull(population) THEN Null
    ELSE Some(213 + FloorBand(hashUnitInterval(<<"g", "e", "s", ":">> \o communeName), 75))

fetchGesEmissions(communeName, population) ==
    IF NoPopulation(population) THEN Null
    ELSE Some(213 + FloorBand(hashUnitInterval(<<"g", "e", "s", ":">> \o communeName), 75))

fetchWaterConsumption(communeName, population) ==
    IF NoPopulation(population) THEN Null
    ELSE Some(RoundBand(hashUnitInterval(
                <<"w", "a", "t", "e", "r", "-", "c", "o", "n", "s", "u", "m", ":">>
                \o communeName), 135, 55))

fetchAirQuality(communeName) ==
    Some(RoundBand(hashUnitInterval(<<"a", "i", "r", ":">> \o communeName), 55, 90))

fetchRenewableEnergyPct(communeName) ==
    Some(RoundBand(hashUnitInterval(<<"r", "e", "n", "e", "w", ":">> \o communeName), 12, 20))

(***************************************************************************)
(* The state.  A slot is one caller of buildMetricsForCity; onCompare runs *)
(* two calls concurrently, and a caller may call again once its call has   *)
(* settled.  Steps are the runs of code between two awaits.  A lookup      *)
(* keeps the response it got and the return statement it left by (exit):   *)
(* "blocked" (line 160), "nodata" (172), "norows" (176), "nocolumns"       *)
(* (185), "nopopulation" (203), "computed" (210).                          *)
(***************************************************************************)
VARIABLES
    oreBlocked,   \* the module-level flag
    pc,           \* slot -> "idle", "resolving", "fanout", "returned", "rejected"
    input,        \* slot -> the city name the call was given, or Null
    geo,          \* slot -> the resolver's request and the registry's answer
    commune,      \* slot -> the resolved commune, or Null
    ev,           \* slot -> events adapter -> its promise
    lk,           \* slot -> the running fetchElecGasPerHab call
    eg,           \* slot -> the fetchElecGasPerHabWithFallback call
    syn,          \* slot -> the results of the synthetic adapters, or Null
    result,       \* slot -> the record returned, or Null
    net,          \* slot -> the requests sent during the call
    lookups,      \* slot -> the fetchElecGasPerHab results received, in order
    screen        \* the state of the comparison screen (compare.tsx)

vars ==
    <<oreBlocked, pc, input, geo, commune, ev, lk, eg, syn, result, net, lookups, screen>>

Slots == {1, 2}
EventAdapters == {"nature", "public", "eco"}
YEARS == <<2024, 2023, 2022, 2021>>

AVG_ELEC_PER_HAB == 3000
AVG_GAS_PER_HAB == 1500

\* a promise
NotStarted == [st |-> "none", val |-> Null]
Pending == [st |-> "pending", val |-> Null]
Fulfilled(v) == [st |-> "fulfilled", val |-> v]
Rejected == [st |-> "rejected", val |-> Null]
Settle(r) == IF r.threw THEN Rejected ELSE Fulfilled(r.val)

NoLookup ==
    [st |-> "none", year |-> 0, population |-> Null, sent |-> FALSE,
     got |-> Null, exit |-> "", threw |-> FALSE, res |-> NoEnergy]
\* nom: the name of the request's query string; got: the response
NoGeo == [nom |-> Null, got |-> Null]
NoFallback == [st |-> "none", i |-> 0, val |-> Null]
NoRequests == [geo |-> 0, ev |-> [a \in EventAdapters |-> 0], eg |-> <<>>]
\* compare.tsx lines 79-85: the useState values; at is the place of onCompare,
\* "idle" when it is not running, "await" at its await of Promise.all
NoComparison ==
    [cityA |-> <<>>, cityB |-> <<>>, loading |-> FALSE, a |-> Null, b |-> Null,
     error |-> Null, at |-> "idle"]

Init ==
    /\ oreBlocked = FALSE
    /\ pc = [r \in Slots |-> "idle"]
    /\ input = [r \in Slots |-> Null]
    /\ geo = [r \in Slots |-> NoGeo]
    /\ commune = [r \in Slots |-> Null]
    /\ ev = [r \in Slots |-> [a \in EventAdapters |-> NotStarted]]
    /\ lk = [r \in Slots |-> NoLookup]
    /\ eg = [r \in Slots |-> NoFallback]
    /\ syn = [r \in Slots |-> Null]
    /\ result = [r \in Slots |-> Null]
    /\ net = [r \in Slots |-> NoRequests]
    /\ lookups = [r \in Slots |-> <<>>]
    /\ screen = NoComparison

(***************************************************************************)
(* fetchElecGasPerHab: the call up to its await, and its continuation.     *)
(***************************************************************************)
\* variant: the call without its check of the flag
FetchStartUnguarded(blocked, population, year) ==
    [st |-> "wait", year |-> year, population |-> population,
     sent |-> TRUE, got |-> Null, exit |-> "", threw |-> FALSE, res |-> NoEnergy]

\* lines 159-169: with the flag set, the result at once; else one request
FetchStart(blocked, population, year) ==
    IF blocked
    THEN [st |-> "ret", year |-> year, population |-> population,
          sent |-> FALSE, got |-> Null, exit |-> "blocked", threw |-> FALSE,
          res |-> NoEnergy]
    ELSE [st |-> "wait", year |-> year, population |-> population,
          sent |-> TRUE, got |-> Null, exit |-> "", threw |-> FALSE, res |-> NoEnergy]

\* variant: only a refusal by status counts as no data
NoUsableBodyOnStatus(outcome) == outcome.kind = "status"

\* line 170: !data
NoUsableBody(outcome) ==
    LET data == safeJson(outcome) IN ~data.threw /\ ~Truthy(data.val)

\* lines 169-210: the call's state once the response is in
FetchFinish(l, outcome) ==
    LET data == safeJson(outcome)
    IN  IF data.threw
        THEN [l EXCEPT !.st = "ret", !.got = Some(outcome), !.exit = "threw",
                       !.threw = TRUE]
        ELSE IF ~Truthy(data.val)
             THEN [l EXCEPT !.st = "ret", !.got = Some(outcome), !.exit = "nodata",
                            !.res = NoEnergy]
        ELSE [l EXCEPT !.st = "ret", !.got = Some(outcome),
                       !.exit = ExitFromData(data.val, l.population),
                       !.res = EnergyFromData(data.val, l.population)]

\* variant: the flag follows the last response (oreBlocked = !data)
FlagAfterLastOutcome(blocked, outcome) == NoUsableBody(outcome)

\* variant: the flag is never set
FlagAfterNever(blocked, outcome) == blocked

\* variant: an answer without rows sets the flag too
FlagAfterNoRows(blocked, outcome) ==
    LET results == Get(safeJson(outcome).val, "results")
    IN  blocked \/ NoUsableBody(outcome) \/ results.t # "arr" \/ results.a = <<>>

\* line 171: oreBlocked = true
FlagAfter(blocked, outcome) == blocked \/ NoUsableBody(outcome)

(***************************************************************************)
(* fetchElecGasPerHabWithFallback.                                         *)
(***************************************************************************)
\* variant: the two averages exchanged
FallbackAveragesSwapped ==
    [elecKwhPerHab |-> Some(Whole(1500)),
     gasKwhPerHab |-> Some(Whole(3000)),
     elecEstimated |-> TRUE,
     gasEstimated |-> TRUE]

FallbackAverages ==
    [elecKwhPerHab |-> Some(Whole(AVG_ELEC_PER_HAB)),
     gasKwhPerHab |-> Some(Whole(AVG_GAS_PER_HAB)),
     elecEstimated |-> TRUE,
     gasEstimated |-> TRUE]

\* variant: a measured result flagged as an estimate
MeasuredFlaggedEstimated(res) ==
    [elecKwhPerHab |-> res.elecKwhPerHab,
     gasKwhPerHab |-> res.gasKwhPerHab,
     elecEstimated |-> TRUE,
     gasEstimated |-> TRUE]

\* variant: the gas value of a measured result flagged as an estimate
MeasuredGasFlagged(res) ==
    [elecKwhPerHab |-> res.elecKwhPerHab,
     gasKwhPerHab |-> res.gasKwhPerHab,
     elecEstimated |-> FALSE,
     gasEstimated |-> TRUE]

\* line 218: { ...res, elecEstimated: false, gasEstimated: false }
Measured(res) ==
    [elecKwhPerHab |-> res.elecKwhPerHab,
     gasKwhPerHab |-> res.gasKwhPerHab,
     elecEstimated |-> FALSE,
     gasEstimated |-> FALSE]

\* variant: any result that is not an exception ends the loop
HasEnergyAny(res) == TRUE

\* variant: the values tested for truthiness (res.elecKwhPerHab ||
\* res.gasKwhPerHab), so that 0 counts as no value
HasEnergyTruthy(res) ==
    \/ ~IsNull(res.elecKwhPerHab) /\ Val(res.elecKwhPerHab).n # 0
    \/ ~IsNull(res.gasKwhPerHab) /\ Val(res.gasKwhPerHab).n # 0

\* line 218: the lookup gave an electricity or a gas value
HasEnergy(res) == ~IsNull(res.elecKwhPerHab) \/ ~IsNull(res.gasKwhPerHab)

\* variant: the loop without its check of the flag
BreaksLoopNever(blocked) == FALSE

\* line 215: if (oreBlocked) break
BreaksLoop(blocked) == blocked

\* variant: the years taken from the end of the list
FallbackFromOldestFirst(i, years, blocked, population) ==
    IF i > Len(years) \/ BreaksLoop(blocked)
    THEN [eg |-> [st |-> "fulfilled", i |-> i, val |-> Some(FallbackAverages)],
          lk |-> NoLookup]
    ELSE [eg |-> [st |-> "running", i |-> i, val |-> Null],
          lk |-> FetchStart(blocked, population, years[Len(years) + 1 - i])]

\* lines 214-217 and 224-227: the loop from its i-th year on, up to the next
\* await; [eg, lk] are the states of the fallback and of the call it starts
FallbackFrom(i, years, blocked, population) ==
    IF i > Len(years) \/ BreaksLoop(blocked)
    THEN [eg |-> [st |-> "fulfilled", i |-> i, val |-> Some(FallbackAverages)],
          lk |-> NoLookup]
    ELSE [eg |-> [st |-> "running", i |-> i, val |-> Null],
          lk |-> FetchStart(blocked, population, years[i])]

SentYears(l) == IF l.sent THEN <<l.year>> ELSE <<>>

(***************************************************************************)
(* The inputs: city names, and what the three upstreams may answer.        *)
(***************************************************************************)
Paris == <<"P", "a", "r", "i", "s">>
Cergy == <<"C", "e", "r", "g", "y">>
Lyon == <<"L", "y", "o", "n">>

Cities == {<<>>, <<" ">>, Paris, <<" ">> \o Cergy \o <<" ">>}

cParis ==
    [nom |-> Paris, code |-> <<"7", "5", "0", "5", "6">>,
     population |-> Some(2), departement |-> "75"]
cCergy ==
    [nom |-> Cergy, code |-> <<"9", "5", "1", "2", "7">>,
     population |-> Null, departement |-> "95"]
cLyon ==
    [nom |-> Lyon, code |-> <<"6", "9", "1", "2", "3">>,
     population |-> Some(5), departement |-> "69"]

HttpErrors == {403, 500}
Failures == {NetErr, NotJson} \cup {BadStatus(st) : st \in HttpErrors}

\* a candidate without a departement
cNowhere ==
    [nom |-> Lyon, code |-> <<"0", "0", "0", "0", "0">>,
     population |-> Some(9), departement |-> ""]

\* two communes of the region with the population of cParis and of cCergy
cMelun ==
    [nom |-> <<"M", "e", "l", "u", "n">>, code |-> <<"7", "7", "2", "8", "8">>,
     population |-> Some(2), departement |-> "77"]
cOrsay ==
    [nom |-> <<"O", "r", "s", "a", "y">>, code |-> <<"9", "1", "4", "7", "1">>,
     population |-> Some(0), departement |-> "91"]
\* a commune of department 975
cMiquelon ==
    [nom |-> <<"M", "i", "q", "u", "e", "l", "o", "n">>,
     code |-> <<"9", "7", "5", "0", "1">>,
     population |-> Some(7), departement |-> "975"]

GeoBodies ==
    {JArr(<<>>), JArr(<<cLyon>>), JArr(<<cLyon, cParis>>),
     JArr(<<cCergy>>), JArr(<<cNowhere>>), JObj(<<>>), JStr("abc"), JNull}
GeoOutcomes == Failures \cup {Json(b) : b \in GeoBodies}

CountBody(c) == JObj(<<Member("results", JArr(<<JObj(<<Member("c", c)>>)>>))>>)
EventBodies ==
    {CountBody(JNum(n)) : n \in 0..MaxCount}
    \cup {CountBody(JNull), CountBody(JStr("abc")), CountBody(JStr("1")),
          JObj(<<Member("results", JArr(<<>>))>>),
          JObj(<<Member("results", JStr("abc"))>>),
          JObj(<<>>), JArr(<<>>), JNum(1), JNull}
EventOutcomes == Failures \cup {Json(b) : b \in EventBodies}

Row(filiere, column, n) ==
    JObj(<<Member("annee", JStr("2024")), Member("filiere", JStr(filiere)),
           Member(column, JNum(n))>>)
Table(rows) == JObj(<<Member("results", JArr(rows))>>)
EnergyBodies ==
    {JNull, JNum(0), JStr(""), JBool(FALSE),
     JNum(1), JArr(<<>>), JObj(<<>>), JObj(<<Member("results", JStr("abc"))>>),
     Table(<<>>), Table(<<JNull>>), Table(<<JNum(1)>>),
     Table(<<JObj(<<Member("annee", JStr("2024")), Member("valeur", JNum(3))>>)>>),
     Table(<<Row("Electricite", "conso_mwh", 50), Row("Gaz", "conso_mwh", 2)>>),
     Table(<<Row("Electricite", "conso_mwh", 4), Row("Gaz", "conso_mwh", 2)>>),
     Table(<<Row("Electricite", "consommation_kwh", 5000), Row("Chaleur", "consommation_kwh", 7)>>),
     Table(<<Row("Electricite", "conso_mwh", 50), Row("Gaz", "conso_mwh", 60)>>)}
EnergyOutcomes == Failures \cup {Json(b) : b \in EnergyBodies}

\* tables around the ceiling of 20000 kWh per inhabitant
CeilingBodies ==
    {Table(<<Row("Electricite", "conso_kwh", 40000), Row("Gaz", "conso_kwh", 40001)>>),
     Table(<<Row("Electricite", "conso_kwh", 40001), Row("Gaz", "conso_kwh", 3)>>),
     Table(<<Row("Electricite", "conso_kwh", 20000), Row("Gaz", "conso_kwh", 20000),
             Row("Gaz", "conso_kwh", 1)>>),
     Table(<<Row("Electricite", "conso_mwh", 20), Row("Gaz", "conso_mwh", 21)>>),
     Table(<<Row("Gaz", "Conso_MWh", 40), Row("Electricite", "Conso_MWh", 41)>>),
     Table(<<Row("Electricite et gaz", "consommation_mwh", 20),
             Row("Electricite", "consommation_mwh", 20)>>)}

\* a row with the given cells
Cells(filiereColumn, filiere, column1, cell1, column2, cell2) ==
    JObj(<<Member(filiereColumn, JStr(filiere)), Member(column1, cell1),
           Member(column2, cell2)>>)

\* tables with several, untagged, unusual or missing columns
ColumnBodies ==
    {Table(<<Cells("filiere", "Electricite", "conso_kwh", JNum(7), "consommation_mwh", JNum(3)),
             Cells("filiere", "Gaz", "conso_kwh", JNum(5), "consommation_mwh", JNum(2))>>),
     Table(<<Cells("filiere", "Electricite", "consommation", JNum(7), "conso_kwh", JNum(3000))>>),
     Table(<<Cells("filiere", "Gaz", "conso", JNum(6), "consommation", JNum(4))>>),
     Table(<<Cells("filiere", "Electricite", "consommation", JStr("40"), "annee", JStr("2024")),
             Cells("filiere", "Gaz", "consommation", JNull, "annee", JStr("2024")),
             Cells("filiere", "Gaz", "consommation", JStr("abc"), "annee", JStr("2024"))>>),
     Table(<<JObj(<<Member("type_energie", JStr("Gaz")), Member("filiere", JStr("Electricite")),
                    Member("conso_mwh", JNum(4))>>)>>),
     Table(<<JObj(<<Member("type_energie", JStr("Gaz")), Member("conso_mwh", JNum(4))>>)>>),
     Table(<<Cells("filiere", "Electricite", "valeur", JNum(4), "annee", JStr("2024"))>>),
     Table(<<Cells("annee", "2024", "conso_mwh", JNum(4), "valeur", JNum(4))>>),
     Table(<<JObj(<<>>), Row("Electricite", "conso_mwh", 4)>>),
     Table(<<JNull, Row("Electricite", "conso_mwh", 4)>>),
     Table(<<Row("Electricite", "conso_mwh", 4), JNull,
             JObj(<<Member("filiere", JNum(1)), Member("conso_mwh", JNum(9))>>)>>)}

(***************************************************************************)
(* buildMetricsForCity.                                                    *)
(***************************************************************************)
\* lines 284-288: the adapters that send no request
Synthetic(c) ==
    [others |-> fetchWaterWasteFuelPlaceholders(c.insee, c.population),
     ges |-> fetchGesEmissions(c.nom, c.population),
     waterConsum |-> fetchWaterConsumption(c.nom, c.population),
     airQuality |-> fetchAirQuality(c.nom),
     renewablePct |-> fetchRenewableEnergyPct(c.nom)]

\* variant: a null events count blanks the air-quality index
RecordPropagatingNull(c, events, energy, s) ==
    [commune |-> c,
     natureEventsCount |-> events["nature"].val,
     publicEventsCount |-> events["public"].val,
     publicEcoEventsCount |-> events["eco"].val,
     elecKwhPerHab |-> energy.elecKwhPerHab,
     gasKwhPerHab |-> energy.gasKwhPerHab,
     elecEstimated |-> energy.elecEstimated,
     gasEstimated |-> energy.gasEstimated,
     waterLPerHab |-> Some(s.others.waterLPerHab),
     wasteKgPerHab |-> Some(s.others.wasteKgPerHab),
     fuelLPerHab |-> Some(s.others.fuelLPerHab),
     waterEstimated |-> s.others.waterEstimated,
     wasteEstimated |-> s.others.wasteEstimated,
     fuelEstimated |-> s.others.fuelEstimated,
     gesEmissionsTonsPerHab |-> s.ges,
     waterConsumLPerHab |-> s.waterConsum,
     airQualityIndex |-> IF IsNull(events["nature"].val) THEN Null ELSE s.airQuality,
     renewableEnergyPct |-> s.renewablePct]

\* lines 291-310
Record(c, events, energy, s) ==
    [commune |-> c,
     natureEventsCount |-> events["nature"].val,
     publicEventsCount |-> events["public"].val,
     publicEcoEventsCount |-> events["eco"].val,
     elecKwhPerHab |-> energy.elecKwhPerHab,
     gasKwhPerHab |-> energy.gasKwhPerHab,
     elecEstimated |-> energy.elecEstimated,
     gasEstimated |-> energy.gasEstimated,
     waterLPerHab |-> Some(s.others.waterLPerHab),
     wasteKgPerHab |-> Some(s.others.wasteKgPerHab),
     fuelLPerHab |-> Some(s.others.fuelLPerHab),
     waterEstimated |-> s.others.waterEstimated,
     wasteEstimated |-> s.others.wasteEstimated,
     fuelEstimated |-> s.others.fuelEstimated,
     gesEmissionsTonsPerHab |-> s.ges,
     waterConsumLPerHab |-> s.waterConsum,
     airQualityIndex |-> s.airQuality,
     renewableEnergyPct |-> s.renewablePct]

\* variant: a commune without a population is treated as not found
ReturnsNullWithoutPopulation(c) == IsNull(c) \/ IsNull(Val(c).population)

\* line 277: if (!commune) return null
ReturnsNull(c) == IsNull(c)

\* the call returns null: no adapter has been started
ReturnNull(r) ==
    /\ pc' = [pc EXCEPT ![r] = "returned"]
    /\ result' = [result EXCEPT ![r] = Null]
    /\ UNCHANGED <<oreBlocked, input, ev, lk, eg, syn, lookups, screen>>

\* lines 279-289: every adapter runs up to its first await
FanOut(r, c) ==
    LET f == FallbackFrom(1, YEARS, oreBlocked, c.population)
    IN  /\ pc' = [pc EXCEPT ![r] = "fanout"]
        /\ ev' = [ev EXCEPT ![r] = [a \in EventAdapters |-> Pending]]
        /\ eg' = [eg EXCEPT ![r] = f.eg]
        /\ lk' = [lk EXCEPT ![r] = f.lk]
        /\ syn' = [syn EXCEPT ![r] = Some(Synthetic(c))]
        /\ net' = [net EXCEPT ![r].ev = [a \in EventAdapters |-> 1],
                              ![r].eg = SentYears(f.lk)]
        /\ UNCHANGED <<oreBlocked, input, result, lookups, screen>>

\* lines 275-276 and 115-123: the call, up to the resolver's request
Call(r, city) ==
    /\ pc[r] = "idle"
    /\ IsNull(input[r])
    /\ input' = [input EXCEPT ![r] = Some(city)]
    /\ IF trim(city) = <<>>
       THEN /\ commune' = [commune EXCEPT ![r] = Null]
            /\ pc' = [pc EXCEPT ![r] = "returned"]
            /\ result' = [result EXCEPT ![r] = Null]
            /\ UNCHANGED <<oreBlocked, geo, ev, lk, eg, syn, net, lookups, screen>>
       ELSE /\ pc' = [pc EXCEPT ![r] = "resolving"]
            /\ geo' = [geo EXCEPT ![r].nom = Some(trim(city))]
            /\ net' = [net EXCEPT ![r].geo = 1]
            /\ UNCHANGED <<oreBlocked, commune, ev, lk, eg, syn, result, lookups, screen>>

\* variant: a request that fails is sent again
GeoResponseRetrying(r, outcome) ==
    /\ pc[r] = "resolving"
    /\ geo' = [geo EXCEPT ![r].got = Some(outcome)]
    /\ LET list == safeJson(outcome)
           c == CommuneFromList(list.val)
       IN  IF outcome.kind # "json" /\ net[r].geo < 2
           THEN /\ net' = [net EXCEPT ![r].geo = @ + 1]
                /\ UNCHANGED <<oreBlocked, pc, input, commune, ev, lk, eg, syn, result,
                               lookups, screen>>
           ELSE /\ commune' = [commune EXCEPT ![r] = c]
                /\ IF ReturnsNull(c)
                   THEN ReturnNull(r) /\ UNCHANGED net
                   ELSE FanOut(r, Val(c))

\* lines 123-141 and 276-289: the registry has answered
GeoResponse(r, outcome) ==
    /\ pc[r] = "resolving"
    /\ geo' = [geo EXCEPT ![r].got = Some(outcome)]
    /\ LET list == safeJson(outcome)
           c == CommuneFromList(list.val)
       IN  IF list.threw
           THEN /\ pc' = [pc EXCEPT ![r] = "rejected"]
                /\ UNCHANGED <<oreBlocked, input, commune, ev, lk, eg, syn, result, net,
                               lookups, screen>>
           ELSE /\ commune' = [commune EXCEPT ![r] = c]
                /\ IF ReturnsNull(c)
                   THEN ReturnNull(r) /\ UNCHANGED net
                   ELSE FanOut(r, Val(c))

\* variant: a count request that fails is sent once more
EventResponseRetrying(r, a, outcome) ==
    /\ pc[r] = "fanout"
    /\ ev[r][a].st = "pending"
    /\ IF outcome.kind # "json" /\ net[r].ev[a] < 2
       THEN /\ net' = [net EXCEPT ![r].ev[a] = @ + 1]
            /\ UNCHANGED ev
       ELSE /\ ev' = [ev EXCEPT ![r][a] = Settle(odsCount(outcome))]
            /\ UNCHANGED net
    /\ UNCHANGED <<oreBlocked, pc, input, geo, commune, lk, eg, syn, result, lookups, screen>>

\* variant: with the flag set, a count is given up as the energy values are
EventResponseBlocked(r, a, outcome) ==
    /\ pc[r] = "fanout"
    /\ ev[r][a].st = "pending"
    /\ ev' = [ev EXCEPT ![r][a] =
                IF oreBlocked THEN Fulfilled(Null) ELSE Settle(odsCount(outcome))]
    /\ UNCHANGED <<oreBlocked, pc, input, geo, commune, lk, eg, syn, result, net, lookups, screen>>

\* lines 95-98: an events upstream has answered adapter a
EventResponse(r, a, outcome) ==
    /\ pc[r] = "fanout"
    /\ ev[r][a].st = "pending"
    /\ ev' = [ev EXCEPT ![r][a] = Settle(odsCount(outcome))]
    /\ UNCHANGED <<oreBlocked, pc, input, geo, commune, lk, eg, syn, result, net, lookups, screen>>

\* lines 169-210: the energy upstream has answered the running lookup
EnergyResponse(r, outcome) ==
    /\ lk[r].st = "wait"
    /\ lk' = [lk EXCEPT ![r] = FetchFinish(lk[r], outcome)]
    /\ oreBlocked' = FlagAfter(oreBlocked, outcome)
    /\ UNCHANGED <<pc, input, geo, commune, ev, eg, syn, result, net, lookups, screen>>

\* lines 217-222: the fallback loop takes the lookup's result and goes on
FallbackResume(r) ==
    /\ pc[r] = "fanout"
    /\ eg[r].st = "running"
    /\ lk[r].st = "ret"
    /\ lookups' = [lookups EXCEPT ![r] = Append(@, [year |-> lk[r].year, exit |-> lk[r].exit,
                                                   res |-> lk[r].res])]
    /\ IF ~lk[r].threw /\ HasEnergy(lk[r].res)
       THEN /\ eg' = [eg EXCEPT ![r] = [st |-> "fulfilled", i |-> eg[r].i,
                                        val |-> Some(Measured(lk[r].res))]]
            /\ lk' = [lk EXCEPT ![r] = NoLookup]
            /\ UNCHANGED net
       ELSE LET f == FallbackFrom(eg[r].i + 1, YEARS, oreBlocked, lk[r].population)
            IN  /\ eg' = [eg EXCEPT ![r] = f.eg]
                /\ lk' = [lk EXCEPT ![r] = f.lk]
                /\ net' = [net EXCEPT ![r].eg = @ \o SentYears(f.lk)]
    /\ UNCHANGED <<oreBlocked, pc, input, geo, commune, ev, syn, result, screen>>

AnyRejected(r) == \E a \in EventAdapters : ev[r][a].st = "rejected"
\* variant: the join does not wait for the eco-events adapter
AllFulfilledButEco(r) ==
    /\ \A a \in EventAdapters \ {"eco"} : ev[r][a].st = "fulfilled"
    /\ eg[r].st = "fulfilled"

AllFulfilled(r) ==
    /\ \A a \in EventAdapters : ev[r][a].st = "fulfilled"
    /\ eg[r].st = "fulfilled"

\* lines 279 and 291-310: Promise.all has settled
Assemble(r) ==
    /\ pc[r] = "fanout"
    /\ AnyRejected(r) \/ AllFulfilled(r)
    /\ IF AnyRejected(r)
       THEN /\ pc' = [pc EXCEPT ![r] = "rejected"]
            /\ UNCHANGED result
       ELSE /\ pc' = [pc EXCEPT ![r] = "returned"]
            /\ result' = [result EXCEPT ![r] =
                            Some(Record(Val(commune[r]), ev[r], Val(eg[r].val), Val(syn[r])))]
    /\ UNCHANGED <<oreBlocked, input, geo, commune, ev, lk, eg, syn, net, lookups, screen>>

\* the caller has its answer and may call again
Reset(r) ==
    /\ pc[r] \in {"returned", "rejected"}
    /\ lk[r].st # "wait"
    /\ pc' = [pc EXCEPT ![r] = "idle"]
    /\ input' = [input EXCEPT ![r] = Null]
    /\ geo' = [geo EXCEPT ![r] = NoGeo]
    /\ commune' = [commune EXCEPT ![r] = Null]
    /\ ev' = [ev EXCEPT ![r] = [a \in EventAdapters |-> NotStarted]]
    /\ lk' = [lk EXCEPT ![r] = NoLookup]
    /\ eg' = [eg EXCEPT ![r] = NoFallback]
    /\ syn' = [syn EXCEPT ![r] = Null]
    /\ result' = [result EXCEPT ![r] = Null]
    /\ net' = [net EXCEPT ![r] = NoRequests]
    /\ lookups' = [lookups EXCEPT ![r] = <<>>]
    /\ UNCHANGED <<oreBlocked, screen>>

\* one step of the call of slot r, the upstreams answering from the given sets
Step(r, cities, geoOutcomes, eventOutcomes, energyOutcomes) ==
    \/ \E city \in cities : Call(r, city)
    \/ \E outcome \in geoOutcomes : GeoResponse(r, outcome)
    \/ \E a \in EventAdapters : \E outcome \in eventOutcomes[a] : EventResponse(r, a, outcome)
    \/ \E outcome \in energyOutcomes : EnergyResponse(r, outcome)
    \/ FallbackResume(r)
    \/ Assemble(r)
    \/ Reset(r)

(***************************************************************************)
(* Spec: one caller, calling again and again, every upstream answer of the *)
(* model possible.                                                         *)
(***************************************************************************)
AnyEventOutcome == [a \in EventAdapters |-> EventOutcomes]

\* the energy upstream fails, or answers a falsy body, a body without
\* rows, or rows
YearOutcomes ==
    Failures
    \cup {Json(b) : b \in
            {JNull, JStr(""), JObj(<<>>), Table(<<>>),
             Table(<<Row("Electricite", "conso_mwh", 50), Row("Gaz", "conso_mwh", 2)>>),
             Table(<<Row("Electricite", "conso_mwh", 4), Row("Gaz", "conso_mwh", 2)>>)}}

Next == Step(1, Cities, GeoOutcomes, AnyEventOutcome, YearOutcomes)

Spec == Init /\ [][Next]_vars

(***************************************************************************)
(* SpecPair: two callers running concurrently (compare.tsx, onCompare),    *)
(* every interleaving of their steps possible.  Each events upstream       *)
(* answers in one way; the energy upstream fails, answers no row, or       *)
(* answers rows.                                                           *)
(***************************************************************************)
PairCities == {Paris}
PairGeoOutcomes == {Json(JArr(<<cParis>>))}
PairEventOutcome ==
    [a \in EventAdapters |->
        CASE a = "nature" -> {NetErr}
          [] a = "public" -> {Json(CountBody(JNum(1)))}
          [] OTHER -> {BadStatus(500)}]
PairEnergyOutcomes ==
    {BadStatus(403), Json(Table(<<>>)),
     Json(Table(<<Row("Electricite", "conso_mwh", 4), Row("Gaz", "conso_mwh", 2)>>))}

NextPair ==
    \E r \in Slots :
        Step(r, PairCities, PairGeoOutcomes, PairEventOutcome, PairEnergyOutcomes)

SpecPair == Init /\ [][NextPair]_vars

(***************************************************************************)
(* SpecLookup: fetchElecGasPerHab called directly, by two callers, for any *)
(* year and population.                                                    *)
(***************************************************************************)
DirectCall(r, population, year) ==
    /\ pc[r] = "idle"
    /\ lk[r].st \in {"none", "ret"}
    /\ lk' = [lk EXCEPT ![r] = FetchStart(oreBlocked, population, year)]
    /\ net' = [net EXCEPT ![r].eg = SentYears(lk'[r])]
    /\ UNCHANGED <<oreBlocked, pc, input, geo, commune, ev, eg, syn, result, lookups, screen>>

LookupPopulations == {Null} \cup {Some(n) : n \in 0..MaxPopulation}
LookupYears == {YEARS[i] : i \in 1..Len(YEARS)}

NextLookup ==
    \E r \in Slots :
        \/ \E population \in LookupPopulations, year \in LookupYears :
              DirectCall(r, population, year)
        \/ \E outcome \in EnergyOutcomes : EnergyResponse(r, outcome)

SpecLookup == Init /\ [][NextLookup]_vars

(***************************************************************************)
(* SpecEnergy: fetchElecGasPerHab called directly by one caller, for any   *)
(* population, the upstream answering any table of the model.              *)
(***************************************************************************)
TableOutcomes ==
    EnergyOutcomes \cup {Json(b) : b \in CeilingBodies \cup ColumnBodies}

NextEnergy ==
    \/ \E population \in LookupPopulations, year \in LookupYears :
          DirectCall(1, population, year)
    \/ \E outcome \in TableOutcomes : EnergyResponse(1, outcome)

SpecEnergy == Init /\ [][NextEnergy]_vars

(***************************************************************************)
(* SpecUnits: fetchElecGasPerHab called directly by one caller, for any    *)
(* population; the tables answered have a consumption column in kWh, in    *)
(* MWh, in both or without a unit.                                         *)
(***************************************************************************)
\* a table of one electricity and one gas row with one consumption column
OneColumn(column, elec, gas) ==
    Table(<<Row("Electricite", column, elec), Row("Gaz", column, gas)>>)
\* a table of one electricity and one gas row with two consumption columns
TwoColumns(column1, elec1, gas1, column2, elec2, gas2) ==
    Table(<<Cells("filiere", "Electricite", column1, JNum(elec1), column2, JNum(elec2)),
            Cells("filiere", "Gaz", column1, JNum(gas1), column2, JNum(gas2))>>)
UnitBodies ==
    {OneColumn("consommation_kwh", 7000, 5000),
     OneColumn("CONSO_KWH", 7000, 5000),
     OneColumn("Conso_MWh", 3, 2),
     OneColumn("consommation", 3, 2),
     OneColumn("conso", 3, 2),
     TwoColumns("consommation_kwh", 7000, 5000, "consommation_mwh", 3, 2),
     TwoColumns("conso_kwh", 7000, 5000, "conso_mwh", 3, 2),
     TwoColumns("conso_kwh", 7000, 5000, "consommation_mwh", 3, 2),
     TwoColumns("consommation_kwh", 7000, 5000, "conso_mwh", 3, 2),
     TwoColumns("conso_mwh", 3, 2, "consommation_kwh", 7000, 5000),
     TwoColumns("consommation_mwh", 3, 2, "conso_kwh", 7000, 5000)}
UnitOutcomes == {Json(b) : b \in UnitBodies} \cup {BadStatus(404)}

NextUnits ==
    \/ \E population \in LookupPopulations, year \in LookupYears :
          DirectCall(1, population, year)
    \/ \E outcome \in UnitOutcomes : EnergyResponse(1, outcome)

SpecUnits == Init /\ [][NextUnits]_vars

(***************************************************************************)
(* SpecSchema: one caller; the energy upstream answers tables whose first  *)
(* row lacks the carrier column, the consumption column or both, and       *)
(* sometimes a table with both or a refusal.                               *)
(***************************************************************************)
MismatchBodies ==
    {Table(<<Cells("filiere", "Electricite", "valeur", JNum(4), "annee", JStr("2024"))>>),
     Table(<<Cells("annee", "2024", "conso_mwh", JNum(4), "valeur", JNum(4))>>),
     Table(<<JObj(<<>>), Row("Electricite", "conso_mwh", 4)>>)}
SchemaOutcomes ==
    {Json(b) : b \in MismatchBodies}
    \cup {Json(Table(<<Row("Electricite", "conso_mwh", 4), Row("Gaz", "conso_mwh", 2)>>)),
          BadStatus(403)}

NextSchema ==
    Step(1, PairCities, PairGeoOutcomes, AnyEventOutcome, SchemaOutcomes)

SpecSchema == Init /\ [][NextSchema]_vars

(***************************************************************************)
(* SpecTwin: two callers running concurrently; the registry answers the    *)
(* same INSEE code with or without a population, under two names; the      *)
(* energy upstream refuses or answers rows.                                *)
(***************************************************************************)
\* the commune of cParis as the registry gives it without a population
cParisNoCount ==
    [nom |-> <<"P", "a", "r", "i", "s", " ", "1", "e", "r">>,
     code |-> <<"7", "5", "0", "5", "6">>,
     population |-> Null, departement |-> "75"]

TwinGeoOutcomes ==
    {Json(JArr(<<cParis>>)), Json(JArr(<<cParisNoCount>>))}
TwinEnergyOutcomes ==
    {BadStatus(403),
     Json(Table(<<Row("Electricite", "conso_mwh", 4), Row("Gaz", "conso_mwh", 2)>>))}

NextTwin ==
    \E r \in Slots :
        Step(r, PairCities, TwinGeoOutcomes, PairEventOutcome, TwinEnergyOutcomes)

SpecTwin == Init /\ [][NextTwin]_vars

(***************************************************************************)
(* SpecOutage: SpecPair with the energy upstream unreachable: every        *)
(* request to it fails.                                                    *)
(***************************************************************************)
NextOutage ==
    \E r \in Slots :
        Step(r, PairCities, PairGeoOutcomes, PairEventOutcome, Failures)

SpecOutage == Init /\ [][NextOutage]_vars

(***************************************************************************)
(* SpecResolve: one caller, the registry answering any list of at most     *)
(* MaxCandidates candidates, or no list; the events and energy upstreams   *)
(* answer in one way each.                                                 *)
(***************************************************************************)
ResolverCities ==
    {<<>>, <<" ">>, <<"\t", " ", "\n">>, <<" ">> \o Cergy \o <<" ">>,
     <<"\n", "L", "e", " ", "P", "e", "c", "q", "\t", " ">>}
Candidates == {cParis, cCergy, cMelun, cOrsay, cLyon, cMiquelon}
CandidateLists == UNION {[1..n -> Candidates] : n \in 0..MaxCandidates}
ResolverGeoOutcomes ==
    Failures
    \cup {Json(JArr(l)) : l \in CandidateLists}
    \cup {Json(b) : b \in {JObj(<<>>), JStr("abc"), JNum(0), JBool(TRUE), JNull}}

NextResolve ==
    Step(1, ResolverCities, ResolverGeoOutcomes, PairEventOutcome, {BadStatus(403)})

SpecResolve == Init /\ [][NextResolve]_vars

(***************************************************************************)
(* SpecYears: one caller; the registry answers a commune with or without a *)
(* population; each year the energy upstream answers a table without a     *)
(* row of one or of both carriers, a table whose values are above the      *)
(* ceiling, a table without rows or without columns, or a refusal.         *)
(***************************************************************************)
YearBodies ==
    {Table(<<Row("Chaleur", "consommation_kwh", 7)>>),
     Table(<<Row("Gaz", "conso_mwh", 2)>>),
     Table(<<Row("Electricite", "conso_mwh", 50), Row("Chaleur", "conso_mwh", 3)>>),
     Table(<<Row("Electricite", "conso_mwh", 50), Row("Gaz", "conso_mwh", 60)>>),
     Table(<<>>),
     Table(<<Cells("filiere", "Electricite", "valeur", JNum(4), "annee", JStr("2024"))>>)}
YearTableOutcomes == {Json(b) : b \in YearBodies} \cup {BadStatus(403)}
YearGeoOutcomes == {Json(JArr(<<cParis>>)), Json(JArr(<<cCergy>>))}

NextYears ==
    Step(1, PairCities, YearGeoOutcomes, PairEventOutcome, YearTableOutcomes)

SpecYears == Init /\ [][NextYears]_vars

(***************************************************************************)
(* SpecSynthetic: one caller; the registry answers a commune whose         *)
(* population is positive, zero, negative or absent; each events upstream  *)
(* answers in any way and the energy upstream refuses or answers rows.     *)
(***************************************************************************)
\* a commune given with a negative population
cIgny ==
    [nom |-> <<"I", "g", "n", "y">>, code |-> <<"9", "1", "3", "1", "2">>,
     population |-> Some(-1), departement |-> "91"]
SyntheticGeoOutcomes ==
    {Json(JArr(<<c>>)) : c \in {cParis, cCergy, cOrsay, cIgny}}

NextSynthetic ==
    Step(1, PairCities, SyntheticGeoOutcomes, AnyEventOutcome, TwinEnergyOutcomes)

SpecSynthetic == Init /\ [][NextSynthetic]_vars

(***************************************************************************)
(* SpecFixed: two callers running concurrently and calling again, for      *)
(* Paris or for Cergy, every interleaving of their steps possible; each    *)
(* upstream gives one answer to a given request: the registry a list for   *)
(* the name, each events upstream its count, the energy upstream no row    *)
(* for Paris in 2024, rows for Paris in the earlier years, and a refusal   *)
(* for Cergy.                                                              *)
(***************************************************************************)
FixedCities == {Paris, Cergy}
FixedGeo(nom) ==
    IF nom = Paris THEN Json(JArr(<<cLyon, cParis>>)) ELSE Json(JArr(<<cCergy>>))
FixedEnergy(insee, year) ==
    IF insee = cParis.code
    THEN IF year = 2024 THEN Json(Table(<<>>))
         ELSE Json(Table(<<Row("Electricite", "conso_mwh", 4), Row("Gaz", "conso_mwh", 2)>>))
    ELSE BadStatus(403)

NextFixed ==
    \E r \in Slots :
        \/ \E city \in FixedCities : Call(r, city)
        \/ pc[r] = "resolving" /\ GeoResponse(r, FixedGeo(Val(geo[r].nom)))
        \/ \E a \in EventAdapters :
              \E outcome \in PairEventOutcome[a] : EventResponse(r, a, outcome)
        \/ lk[r].st = "wait" /\ pc[r] = "fanout"
              /\ EnergyResponse(r, FixedEnergy(Val(commune[r]).insee, lk[r].year))
        \/ FallbackResume(r)
        \/ Assemble(r)
        \/ Reset(r)

SpecFixed == Init /\ [][NextFixed]_vars

(***************************************************************************)
(* SpecBands: one caller; the registry answers one commune of the region   *)
(* whose INSEE code is a department code followed by three digits of at    *)
(* most MaxDigit; the events and energy upstreams answer in one way each.  *)
(***************************************************************************)
BandDepartments == {"75", "77", "93", "95"}
CodePrefix(dept) ==
    CASE dept = "75" -> <<"7", "5">>
      [] dept = "77" -> <<"7", "7">>
      [] dept = "93" -> <<"9", "3">>
      [] OTHER -> <<"9", "5">>
BandCandidates ==
    {[nom |-> Cergy, code |-> CodePrefix(dept) \o <<Digit[a + 1], Digit[b + 1], Digit[c + 1]>>,
      population |-> Some(2), departement |-> dept] :
        dept \in BandDepartments, a \in 0..MaxDigit, b \in 0..MaxDigit, c \in 0..MaxDigit}
BandGeoOutcomes == {Json(JArr(<<c>>)) : c \in BandCandidates}

NextBands ==
    Step(1, {Cergy}, BandGeoOutcomes, PairEventOutcome, {BadStatus(403)})

SpecBands == Init /\ [][NextBands]_vars

(***************************************************************************)
(* The comparison screen (compare.tsx).  Slot 1 is the call for cityA and  *)
(* slot 2 the call for cityB.                                              *)
(***************************************************************************)
\* lines 87-88
canCompare ==
    /\ Len(trim(screen.cityA)) >= 2
    /\ Len(trim(screen.cityB)) >= 2
    /\ ~screen.loading

\* lines 140 and 148: the user edits a name
setCityA(text) ==
    /\ screen' = [screen EXCEPT !.cityA = text]
    /\ UNCHANGED <<oreBlocked, pc, input, geo, commune, ev, lk, eg, syn, result, net,
                   lookups>>

setCityB(text) ==
    /\ screen' = [screen EXCEPT !.cityB = text]
    /\ UNCHANGED <<oreBlocked, pc, input, geo, commune, ev, lk, eg, syn, result, net,
                   lookups>>

\* lines 176-177 and 90-100: the button, enabled by canCompare, is pressed;
\* onCompare runs up to its await, each of the two calls of
\* buildMetricsForCity up to the resolver's request (lines 275-276, 115-123)
onCompare ==
    /\ canCompare
    /\ screen' = [screen EXCEPT !.error = Null, !.loading = TRUE, !.a = Null,
                                !.b = Null, !.at = "await"]
    /\ LET city == [r \in Slots |-> IF r = 1 THEN screen.cityA ELSE screen.cityB]
           named == [r \in Slots |-> trim(city[r]) # <<>>]
       IN  /\ input' = [r \in Slots |-> Some(city[r])]
           /\ pc' = [r \in Slots |-> IF named[r] THEN "resolving" ELSE "returned"]
           /\ geo' = [r \in Slots |->
                        IF named[r] THEN [nom |-> Some(trim(city[r])), got |-> Null]
                        ELSE NoGeo]
           /\ net' = [r \in Slots |->
                        IF named[r] THEN [NoRequests EXCEPT !.geo = 1] ELSE NoRequests]
    /\ commune' = [r \in Slots |-> Null]
    /\ ev' = [r \in Slots |-> [a \in EventAdapters |-> NotStarted]]
    /\ lk' = [r \in Slots |-> NoLookup]
    /\ eg' = [r \in Slots |-> NoFallback]
    /\ syn' = [r \in Slots |-> Null]
    /\ result' = [r \in Slots |-> Null]
    /\ lookups' = [r \in Slots |-> <<>>]
    /\ UNCHANGED oreBlocked

\* variant: each result that is there is shown
ShownEach(sc, ma, mb) ==
    [sc EXCEPT !.a = ma, !.b = mb,
               !.error = IF IsNull(ma) \/ IsNull(mb) THEN Some("notfound") ELSE Null,
               !.loading = FALSE, !.at = "idle"]

\* lines 101-108 and 112: the two calls have returned ma and mb
Shown(sc, ma, mb) ==
    IF IsNull(ma) \/ IsNull(mb)
    THEN [sc EXCEPT !.error = Some("notfound"), !.loading = FALSE, !.at = "idle"]
    ELSE [sc EXCEPT !.a = ma, !.b = mb, !.loading = FALSE, !.at = "idle"]

\* lines 97-113: Promise.all has settled and onCompare runs to its end; the
\* state updates of this one run (setA, setB or setError, then setLoading in
\* the finally block) are seen together when the run is over
onCompareResume ==
    /\ screen.at = "await"
    /\ (\E r \in Slots : pc[r] = "rejected") \/ (\A r \in Slots : pc[r] = "returned")
    /\ screen' =
          IF \E r \in Slots : pc[r] = "rejected"
          THEN [screen EXCEPT !.error = Some("api"), !.loading = FALSE, !.at = "idle"]
          ELSE Shown(screen, result[1], result[2])
    /\ UNCHANGED <<oreBlocked, pc, input, geo, commune, ev, lk, eg, syn, result, net,
                   lookups>>

(***************************************************************************)
(* SpecCompare: the screen; the user edits the two names at any time and   *)
(* presses the button when it is enabled; the registry answers a commune   *)
(* of the region or one outside it, the events upstreams answer in one way *)
(* each and the energy upstream refuses.                                   *)
(***************************************************************************)
ScreenTexts == {<<" ", "P", " ">>, Paris, <<" ">> \o Cergy}
ScreenGeoOutcomes == {Json(JArr(<<cParis>>)), Json(JArr(<<cLyon>>))}

NextCompare ==
    \/ \E text \in ScreenTexts : setCityA(text)
    \/ \E text \in ScreenTexts : setCityB(text)
    \/ onCompare
    \/ \E r \in Slots :
          \/ \E outcome \in ScreenGeoOutcomes : GeoResponse(r, outcome)
          \/ \E a \in EventAdapters :
                \E outcome \in PairEventOutcome[a] : EventResponse(r, a, outcome)
          \/ EnergyResponse(r, BadStatus(403))
          \/ FallbackResume(r)
          \/ Assemble(r)
    \/ onCompareResume

SpecCompare == Init /\ [][NextCompare]_vars

(***************************************************************************)
(* The properties.                                                         *)
(***************************************************************************)
RecordFields ==
    {"commune", "natureEventsCount", "publicEventsCount", "publicEcoEventsCount",
     "elecKwhPerHab", "gasKwhPerHab", "elecEstimated", "gasEstimated",
     "waterLPerHab", "wasteKgPerHab", "fuelLPerHab", "waterEstimated",
     "wasteEstimated", "fuelEstimated", "gesEmissionsTonsPerHab",
     "waterConsumLPerHab", "airQualityIndex", "renewableEnergyPct"}

NoAdapterStarted(r) ==
    /\ \A a \in EventAdapters : ev[r][a].st = "none" /\ net[r].ev[a] = 0
    /\ eg[r].st = "none"
    /\ lk[r].st = "none"
    /\ IsNull(syn[r])
    /\ net[r].eg = <<>>
    /\ lookups[r] = <<>>

\* the fixed averages, flagged as estimates
IsFixedAverages(e) ==
    /\ e.elecKwhPerHab = {[n |-> 3000, d |-> 1]}
    /\ e.gasKwhPerHab = {[n |-> 1500, d |-> 1]}
    /\ e.elecEstimated = TRUE
    /\ e.gasEstimated = TRUE

LastLookup(r) == lookups[r][Len(lookups[r])]
GaveEnergy(res) == res.elecKwhPerHab # {} \/ res.gasKwhPerHab # {}

\* C1: buildMetricsForCity returns null exactly when resolveCommuneIdF
\* returned null, and then no adapter was started and no request went to an
\* events or energy upstream; when the commune resolved, the call does not
\* reject and what it returns is a record of that commune with all its fields.
C1_NullIffUnresolved ==
    \A r \in Slots :
        /\ pc[r] = "returned" =>
            /\ IsNull(result[r]) <=> IsNull(commune[r])
            /\ IsNull(result[r]) => NoAdapterStarted(r)
            /\ ~IsNull(result[r]) =>
                /\ DOMAIN Val(result[r]) = RecordFields
                /\ Val(result[r]).commune = Val(commune[r])
        /\ ~IsNull(commune[r]) => pc[r] \in {"fanout", "returned"}

\* an unknown city: the registry was asked and null was returned
C1_Witness ==
    /\ pc[1] = "returned"
    /\ IsNull(result[1])
    /\ net[1].geo = 1

\* C2: whatever the upstreams answer, no adapter call rejects and
\* buildMetricsForCity does not reject.
C2_NeverRejects ==
    \A r \in Slots :
        /\ pc[r] # "rejected"
        /\ \A a \in EventAdapters : ev[r][a].st # "rejected"
        /\ eg[r].st # "rejected"
        /\ ~lk[r].threw

\* a record returned although the three events requests and the energy
\* request of the call failed
C2_Witness ==
    /\ pc[1] = "returned"
    /\ ~IsNull(result[1])
    /\ \A a \in EventAdapters : IsNull(ev[1][a].val)
    /\ net[1].eg = <<2024>>
    /\ oreBlocked

\* C3: when no lookup of the call gave an electricity or gas value, the
\* fallback returns 3000 and 1500 with both estimated flags true, whatever
\* the population.
C3_AllYearsFailGivesAverages ==
    \A r \in Slots :
        (/\ eg[r].st = "fulfilled"
         /\ \A k \in 1..Len(lookups[r]) : ~GaveEnergy(lookups[r][k].res))
        => IsFixedAverages(Val(eg[r].val))

\* the four years were asked in order, none gave a value
C3_Witness ==
    /\ eg[1].st = "fulfilled"
    /\ net[1].eg = <<2024, 2023, 2022, 2021>>
    /\ Len(lookups[1]) = 4
    /\ \A k \in 1..4 : ~GaveEnergy(lookups[1][k].res)

\* C4: when a lookup gives an electricity or gas value, the earlier years
\* having given none, the fallback returns that lookup's values with both
\* estimated flags false, and the record carries them.
C4_SuccessGivesMeasured ==
    \A r \in Slots :
        (Len(lookups[r]) > 0 /\ GaveEnergy(LastLookup(r).res)) =>
            /\ eg[r].st = "fulfilled"
            /\ Val(eg[r].val).elecKwhPerHab = LastLookup(r).res.elecKwhPerHab
            /\ Val(eg[r].val).gasKwhPerHab = LastLookup(r).res.gasKwhPerHab
            /\ Val(eg[r].val).elecEstimated = FALSE
            /\ Val(eg[r].val).gasEstimated = FALSE
            /\ (pc[r] = "returned" =>
                  /\ Val(result[r]).elecKwhPerHab = LastLookup(r).res.elecKwhPerHab
                  /\ Val(result[r]).gasKwhPerHab = LastLookup(r).res.gasKwhPerHab
                  /\ ~Val(result[r]).elecEstimated
                  /\ ~Val(result[r]).gasEstimated)

\* the last year of the list gave a value after the three others gave none
C4_Witness ==
    /\ pc[1] = "returned"
    /\ Len(lookups[1]) = 4
    /\ GaveEnergy(lookups[1][4].res)

\* C5: the years are requested in the order of the list, each at most once;
\* only the last lookup received can have given a value, and once it has, the
\* fallback is over with that lookup's values and no further year is requested.
C5_YearsInOrderStopAtFirst ==
    \A r \in Slots :
        /\ Len(net[r].eg) <= Len(YEARS)
        /\ \A k \in 1..Len(net[r].eg) : net[r].eg[k] = YEARS[k]
        /\ Len(lookups[r]) <= Len(net[r].eg)
        /\ \A k \in 1..Len(lookups[r]) : lookups[r][k].year = YEARS[k]
        /\ \A k \in 1..(Len(lookups[r]) - 1) : ~GaveEnergy(lookups[r][k].res)
        /\ (Len(lookups[r]) > 0 /\ GaveEnergy(LastLookup(r).res)) =>
              /\ eg[r].st = "fulfilled"
              /\ ~Val(eg[r].val).elecEstimated
              /\ ~Val(eg[r].val).gasEstimated
              /\ lk[r].st = "none"
              /\ Len(net[r].eg) = Len(lookups[r])

\* the second year gave a value: two requests, 2024 then 2023, and no more
C5_Witness ==
    /\ pc[1] = "returned"
    /\ net[1].eg = <<2024, 2023>>
    /\ GaveEnergy(lookups[1][2].res)

\* a call of fetchElecGasPerHab starts in this step, for slot r
LookupStarts(r) ==
    /\ lk[r].st \in {"none", "ret"}
    /\ lk'[r].st \in {"wait", "ret"}
    /\ lk'[r] # lk[r] \/ net'[r] # net[r]

\* C6: a fetchElecGasPerHab call that starts while oreBlocked is set returns
\* null for both carriers at once and sends no request.
C6_BlockedLookupShortCircuits ==
    [][\A r \in Slots :
          (oreBlocked /\ LookupStarts(r)) =>
              /\ lk'[r].st = "ret"
              /\ lk'[r].res = [elecKwhPerHab |-> {}, gasKwhPerHab |-> {}]
              /\ ~lk'[r].sent
              /\ net'[r].eg = <<>>]_vars

\* a call started with the flag set has returned
C6_Witness ==
    /\ oreBlocked
    /\ lk[1].st = "ret"
    /\ ~lk[1].sent

\* C7: oreBlocked starts false and, once true, stays true.
C7_FlagMonotonic ==
    /\ ~oreBlocked
    /\ [][oreBlocked => oreBlocked']_vars

\* the flag is set, and a lookup that was in flight when it was set has
\* since received rows
C7_Witness ==
    /\ oreBlocked
    /\ \E r \in Slots : Len(lookups[r]) > 0 /\ GaveEnergy(LastLookup(r).res)
    /\ \E r \in Slots : eg[r].st = "fulfilled" /\ lookups[r] = <<>>

\* C8: when the flag is set at the time fetchElecGasPerHabWithFallback is
\* called, it returns 3000 and 1500 with both estimated flags true and sends
\* no request.
C8_TrippedGivesAverages ==
    [][\A r \in Slots :
          (oreBlocked /\ pc[r] = "resolving" /\ pc'[r] = "fanout") =>
              /\ eg'[r].st = "fulfilled"
              /\ IsFixedAverages(Val(eg'[r].val))
              /\ lk'[r].st = "none"
              /\ net'[r].eg = <<>>]_vars

\* a call made with the flag set has returned its record
C8_Witness ==
    /\ oreBlocked
    /\ pc[2] = "returned"
    /\ ~IsNull(result[2])
    /\ net[2].eg = <<>>
    /\ lookups[2] = <<>>

\* C9: with the energy upstream unreachable and two calls running, each
\* call sends at most one energy request; a finished fallback means the flag
\* is set, and every record returned carries the fixed averages as estimates.
C9_BenignRace ==
    \A r \in Slots :
        /\ Len(net[r].eg) <= 1
        /\ eg[r].st = "fulfilled" => (oreBlocked /\ IsFixedAverages(Val(eg[r].val)))
        /\ pc[r] # "rejected"
        /\ pc[r] = "returned" =>
              /\ oreBlocked
              /\ DOMAIN Val(result[r]) = RecordFields
              /\ IsFixedAverages(Val(result[r]))

\* both calls saw the flag unset, both sent one request, both have returned
C9_Witness ==
    \A r \in Slots :
        /\ pc[r] = "returned"
        /\ net[r].eg = <<2024>>

\* the events upstream answers adapter a of slot r in this step
EventAnswered(r, a) == ev[r][a].st = "pending" /\ ev'[r][a].st # "pending"

\* the energy adapter of slot r moves in this step, within one call
EnergyMoves(r) ==
    /\ pc[r] = "fanout" /\ pc'[r] = "fanout"
    /\ lk'[r] # lk[r] \/ eg'[r] # eg[r]

RecordOfOwnAdapters(r) ==
    LET rec == Val(result[r])
        c == Val(commune[r])
    IN  /\ rec.natureEventsCount = ev[r]["nature"].val
        /\ rec.publicEventsCount = ev[r]["public"].val
        /\ rec.publicEcoEventsCount = ev[r]["eco"].val
        /\ rec.elecKwhPerHab = Val(eg[r].val).elecKwhPerHab
        /\ rec.gasKwhPerHab = Val(eg[r].val).gasKwhPerHab
        /\ rec.elecEstimated = Val(eg[r].val).elecEstimated
        /\ rec.gasEstimated = Val(eg[r].val).gasEstimated
        /\ rec.airQualityIndex = fetchAirQuality(c.nom)
        /\ rec.renewableEnergyPct = fetchRenewableEnergyPct(c.nom)
        /\ rec.gesEmissionsTonsPerHab = fetchGesEmissions(c.nom, c.population)
        /\ rec.waterConsumLPerHab = fetchWaterConsumption(c.nom, c.population)
        /\ rec.waterLPerHab =
              {fetchWaterWasteFuelPlaceholders(c.insee, c.population).waterLPerHab}
        /\ rec.wasteKgPerHab =
              {fetchWaterWasteFuelPlaceholders(c.insee, c.population).wasteKgPerHab}
        /\ rec.fuelLPerHab =
              {fetchWaterWasteFuelPlaceholders(c.insee, c.population).fuelLPerHab}

\* C10: the answer to one adapter's request changes no other adapter's
\* promise, and in a returned record every field is the value of its own
\* adapter (the events counts, the energy result) or a function of the
\* commune alone (the synthetic fields): a failed adapter leaves the other
\* fields as they are when it succeeds.
C10_FieldsOfOwnAdapter ==
    /\ [](\A r \in Slots :
            (pc[r] = "returned" /\ ~IsNull(result[r])) => RecordOfOwnAdapters(r))
    /\ [][\A r \in Slots :
            /\ \A a \in EventAdapters :
                  EventAnswered(r, a) =>
                      /\ \A b \in EventAdapters \ {a} : ev'[r][b] = ev[r][b]
                      /\ eg'[r] = eg[r] /\ lk'[r] = lk[r] /\ syn'[r] = syn[r]
                      /\ oreBlocked' = oreBlocked
            /\ EnergyMoves(r) => (ev'[r] = ev[r] /\ syn'[r] = syn[r])]_vars

\* the nature-events request failed, the public-events request did not, and
\* the record has its air-quality index
C10_Witness ==
    /\ pc[1] = "returned"
    /\ ~IsNull(result[1])
    /\ IsNull(Val(result[1]).natureEventsCount)
    /\ ~IsNull(Val(result[1]).publicEventsCount)
    /\ ~IsNull(Val(result[1]).airQualityIndex)

\* the nine adapter calls of slot r have completed
NineCompleted(r) ==
    /\ \A a \in EventAdapters : ev[r][a].st = "fulfilled"
    /\ eg[r].st = "fulfilled"
    /\ lk[r].st = "none"
    /\ syn[r] # {}

\* C11: a record exists only once the call has returned, and then the three
\* events calls, the energy fallback and the five synthetic calls have all
\* completed; the record appears in one step, with all its fields, out of a
\* call that had none, and does not change until the caller calls again.
C11_AtomicAssembly ==
    /\ [](\A r \in Slots :
            /\ pc[r] \in {"idle", "resolving", "fanout"} => result[r] = {}
            /\ result[r] # {} =>
                  /\ pc[r] = "returned"
                  /\ NineCompleted(r)
                  /\ DOMAIN Val(result[r]) = RecordFields)
    /\ [][\A r \in Slots :
            result'[r] # result[r] =>
                \/ /\ result[r] = {}
                   /\ pc[r] = "fanout" /\ pc'[r] = "returned"
                   /\ NineCompleted(r)
                \/ /\ result'[r] = {}
                   /\ pc[r] = "returned" /\ pc'[r] = "idle"]_vars

\* a record returned after the energy adapter went through its four years
\* and an events adapter degraded to null
C11_Witness ==
    /\ pc[1] = "returned"
    /\ result[1] # {}
    /\ Len(lookups[1]) = 4
    /\ Val(result[1]).publicEcoEventsCount = {}
    /\ Val(result[1]).natureEventsCount # {}

\* the candidates the registry answered to slot r, in its order (none when
\* the answer is not a list)
Answered(r) ==
    LET o == Val(geo[r].got)
    IN  IF o.kind = "json" /\ o.body.t = "arr" THEN o.body.a ELSE <<>>

AllowList == {"75", "77", "78", "91", "92", "93", "94", "95"}

\* the commune is made of candidate x
MadeOf(c, x) ==
    /\ c.nom = x.nom
    /\ c.insee = x.code
    /\ c.population = x.population

\* C12: a resolved commune is made of an answered candidate whose department
\* code is one of the eight codes of the region, and carries that code's name
\* from the table; when no answered candidate has one of the eight codes the
\* resolver gives null and so does the call, whatever the populations.
C12_RegionFilter ==
    \A r \in Slots :
        geo[r].got # {} =>
            /\ commune[r] # {} =>
                  \E i \in 1..Len(Answered(r)) :
                      /\ Answered(r)[i].departement \in AllowList
                      /\ MadeOf(Val(commune[r]), Answered(r)[i])
                      /\ Val(commune[r]).departementNom
                            = IDF_DEPTS[Answered(r)[i].departement]
            /\ commune[r] # {} /\ Val(commune[r]).insee = <<"7", "5", "0", "5", "6">>
                  => Val(commune[r]).departementNom = "Paris"
            /\ (\A i \in 1..Len(Answered(r)) :
                    Answered(r)[i].departement \notin AllowList) =>
                  /\ commune[r] = {}
                  /\ pc[r] = "returned"
                  /\ result[r] = {}

\* the registry answered two communes outside the region, both more populous
\* than any commune of the model inside it, and the call returned null
C12_Witness ==
    /\ pc[1] = "returned"
    /\ result[1] = {}
    /\ geo[1].got # {}
    /\ Len(Answered(1)) = 2
    /\ Answered(1)[1].departement = "975"
    /\ Answered(1)[2].departement = "69"

\* the population the sort compares: 0 when the candidate has none
SortKey(x) == IF x.population = {} THEN 0 ELSE Val(x.population)

\* C13: the resolved commune is made of an in-region candidate whose
\* population no in-region candidate exceeds, and which comes before every
\* other in-region candidate of that same population in the registry's order.
C13_MaxPopulationFirstWins ==
    \A r \in Slots :
        (geo[r].got # {} /\ commune[r] # {}) =>
            \E i \in 1..Len(Answered(r)) :
                /\ Answered(r)[i].departement \in AllowList
                /\ MadeOf(Val(commune[r]), Answered(r)[i])
                /\ \A j \in 1..Len(Answered(r)) :
                      Answered(r)[j].departement \in AllowList =>
                          /\ SortKey(Answered(r)[j]) <= SortKey(Answered(r)[i])
                          /\ j < i => SortKey(Answered(r)[j]) < SortKey(Answered(r)[i])

\* three in-region candidates, the two most populous with the same
\* population: the first of these two in the registry's order is resolved
C13_Witness ==
    /\ geo[1].got # {}
    /\ Len(Answered(1)) = 3
    /\ Answered(1)[1].population = {}
    /\ Answered(1)[2].code = <<"7", "7", "2", "8", "8">>
    /\ Answered(1)[3].code = <<"7", "5", "0", "5", "6">>
    /\ commune[1] # {}
    /\ Val(commune[1]).insee = <<"7", "7", "2", "8", "8">>
    /\ pc[1] = "returned"

WhiteSpace == {" ", "\t", "\n"}

\* n is s without its leading and trailing white space
Trimmed(s, n) ==
    \E a \in 0..Len(s) : \E b \in 0..(Len(s) - a) :
        /\ n = SubSeq(s, a + 1, Len(s) - b)
        /\ \A i \in 1..a : s[i] \in WhiteSpace
        /\ \A i \in (Len(s) - b + 1)..Len(s) : s[i] \in WhiteSpace
        /\ n # <<>> => (n[1] \notin WhiteSpace /\ n[Len(n)] \notin WhiteSpace)

\* C14: a call whose input is empty or all white space has returned null at
\* once, with no request sent to the registry or to any upstream; any other
\* input is sent to the registry without its leading and trailing white space.
C14_TrimAndEmpty ==
    \A r \in Slots :
        input[r] # {} =>
            /\ (\A i \in 1..Len(Val(input[r])) : Val(input[r])[i] \in WhiteSpace) =>
                  /\ pc[r] = "returned"
                  /\ result[r] = {}
                  /\ commune[r] = {}
                  /\ net[r].geo = 0
                  /\ geo[r] = [nom |-> {}, got |-> {}]
                  /\ NoAdapterStarted(r)
            /\ (\E i \in 1..Len(Val(input[r])) : Val(input[r])[i] \notin WhiteSpace) =>
                  /\ net[r].geo = 1
                  /\ geo[r].nom # {}
                  /\ Val(geo[r].nom) # <<>>
                  /\ Trimmed(Val(input[r]), Val(geo[r].nom))

\* a call with a tab, a space and a newline has returned null
C14_Witness ==
    /\ input[1] = {<<"\t", " ", "\n">>}
    /\ pc[1] = "returned"
    /\ result[1] = {}
    /\ net[1].geo = 0

\* the response is a failure, or a JSON value that is not a non-empty array
FailedOrMalformed(o) ==
    \/ o.kind \in {"neterr", "status", "notjson"}
    \/ o.kind = "json" /\ (o.body.t # "arr" \/ o.body.a = <<>>)

\* C15: once the registry's response is a failure or is not a non-empty
\* array, the call has returned null after its one request, without starting
\* an adapter: the same outcome as for the empty list of an unknown city;
\* and no call sends a second request to the registry.
C15_FailureIsNotFound ==
    \A r \in Slots :
        /\ net[r].geo <= 1
        /\ (geo[r].got # {} /\ FailedOrMalformed(Val(geo[r].got))) =>
              /\ pc[r] = "returned"
              /\ result[r] = {}
              /\ commune[r] = {}
              /\ net[r].geo = 1
              /\ NoAdapterStarted(r)

\* the registry answered 500 and the call returned null
C15_Witness ==
    /\ geo[1].got = {[kind |-> "status", status |-> 500]}
    /\ pc[1] = "returned"
    /\ result[1] = {}
    /\ net[1].geo = 1

\* the rows of the table a lookup received (none when the response is not a
\* table)
RowsOf(l) ==
    LET o == Val(l.got)
    IN  IF o.kind = "json" /\ o.body.t = "obj" /\ Get(o.body, "results").t = "arr"
        THEN Get(o.body, "results").a
        ELSE <<>>

\* the column a pattern list designates among the names: the first name
\* matching the earliest pattern that matches any name
ExpectedColumn(names, patterns) ==
    IF \A p \in 1..Len(patterns) : \A n \in 1..Len(names) : ~RxTest(patterns[p], names[n])
    THEN {}
    ELSE LET p == CHOOSE q \in 1..Len(patterns) :
                    /\ \E n \in 1..Len(names) : RxTest(patterns[q], names[n])
                    /\ \A q2 \in 1..(q - 1) :
                          \A n \in 1..Len(names) : ~RxTest(patterns[q2], names[n])
             n == CHOOSE m \in 1..Len(names) :
                    /\ RxTest(patterns[p], names[m])
                    /\ \A m2 \in 1..(m - 1) : ~RxTest(patterns[p], names[m2])
         IN  {names[n]}

CarrierColumn(l) ==
    ExpectedColumn(FieldNames(RowsOf(l)[1]), <<"filiere", "energie">>)
ConsumptionColumn(l) ==
    ExpectedColumn(FieldNames(RowsOf(l)[1]),
                   <<"consommation.*mwh", "consommation.*kwh", "conso.*mwh",
                     "conso.*kwh", "consommation", "conso">>)

\* the lookup has returned on a table with rows
AnsweredRows(l) == l.st = "ret" /\ l.got # {} /\ RowsOf(l) # <<>>

\* the lookup has returned after computing its two quotients
Computed(l) ==
    /\ AnsweredRows(l)
    /\ CarrierColumn(l) # {}
    /\ ConsumptionColumn(l) # {}
    /\ l.population # {}
    /\ Val(l.population) > 0

ElecLabels == {"Electricite", "Electricite et gaz"}
GasLabels == {"Gaz", "Electricite et gaz"}

\* the number read in a cell, 0 when it holds none
RawOf(cell) ==
    IF cell.t = "num" THEN cell.n ELSE IF cell = [t |-> "str", s |-> "40"] THEN 40 ELSE 0

\* the sum of the cells of a column over the rows labelled with a carrier
RECURSIVE RawSum(_, _, _, _)
RawSum(rows, carrierColumn, column, labels) ==
    IF rows = <<>> THEN 0
    ELSE (IF /\ Get(Head(rows), carrierColumn).t = "str"
             /\ Get(Head(rows), carrierColumn).s \in labels
          THEN RawOf(Get(Head(rows), column)) ELSE 0)
         + RawSum(Tail(rows), carrierColumn, column, labels)

KwhTagged == {"consommation_kwh", "conso_kwh"}
MwhTagged == {"consommation_mwh", "conso_mwh", "Conso_MWh"}

\* the kWh of a carrier in the table of a lookup
KwhOf(l, labels) ==
    LET column == Val(ConsumptionColumn(l))
    IN  (IF column \in KwhTagged THEN 1 ELSE 1000)
        * RawSum(RowsOf(l), Val(CarrierColumn(l)), column, labels)

\* o is kwh / pop, or null when that is above 20000
ClampedQuotient(o, kwh, pop) ==
    /\ kwh > 20000 * pop => o = {}
    /\ kwh <= 20000 * pop => (o # {} /\ Val(o).n * pop = kwh * Val(o).d)

\* C16: a carrier's kWh per inhabitant above 20000 is returned as null, one
\* of at most 20000 (20000 included) is returned as it is, and each carrier
\* follows its own quotient only.
C16_ClampAbove20000 ==
    \A r \in Slots :
        Computed(lk[r]) =>
            /\ ClampedQuotient(lk[r].res.elecKwhPerHab,
                               KwhOf(lk[r], ElecLabels), Val(lk[r].population))
            /\ ClampedQuotient(lk[r].res.gasKwhPerHab,
                               KwhOf(lk[r], GasLabels), Val(lk[r].population))

\* 40000 kWh of electricity and 40001 kWh of gas for 2 inhabitants:
\* electricity is exactly 20000 and is kept, gas is above and is null
C16_Witness ==
    /\ Computed(lk[1])
    /\ lk[1].population = {2}
    /\ KwhOf(lk[1], ElecLabels) = 40000
    /\ KwhOf(lk[1], GasLabels) = 40001
    /\ lk[1].res.elecKwhPerHab = {[n |-> 20000, d |-> 1]}
    /\ lk[1].res.gasKwhPerHab = {}

\* C17: with a consumption column tagged MWh, a carrier's result is
\* 1000 * (the sum of its rows' values) / population, unless that is above
\* the ceiling of 20000.
C17_MwhTimes1000 ==
    \A r \in Slots :
        (Computed(lk[r]) /\ Val(ConsumptionColumn(lk[r])) \in MwhTagged) =>
            LET rows == RowsOf(lk[r])
                carrier == Val(CarrierColumn(lk[r]))
                column == Val(ConsumptionColumn(lk[r]))
                pop == Val(lk[r].population)
                elec == RawSum(rows, carrier, column, ElecLabels)
                gas == RawSum(rows, carrier, column, GasLabels)
                e == lk[r].res.elecKwhPerHab
                g == lk[r].res.gasKwhPerHab
            IN  /\ e # {} => Val(e).n * pop = 1000 * elec * Val(e).d
                /\ g # {} => Val(g).n * pop = 1000 * gas * Val(g).d
                /\ 1000 * elec <= 20000 * pop => e # {}
                /\ 1000 * gas <= 20000 * pop => g # {}

\* 4 MWh of electricity and 2 MWh of gas for 2 inhabitants: 2000 and 1000
C17_Witness ==
    /\ Computed(lk[1])
    /\ ConsumptionColumn(lk[1]) = {"conso_mwh"}
    /\ lk[1].population = {2}
    /\ RawSum(RowsOf(lk[1]), "filiere", "conso_mwh", ElecLabels) = 4
    /\ RawSum(RowsOf(lk[1]), "filiere", "conso_mwh", GasLabels) = 2
    /\ lk[1].res.elecKwhPerHab = {[n |-> 2000, d |-> 1]}
    /\ lk[1].res.gasKwhPerHab = {[n |-> 1000, d |-> 1]}

\* C18: the carrier and consumption columns are those the ordered pattern
\* lists designate among the names of the first row, an earlier pattern
\* before a later one; when one of the two is missing the lookup returns null
\* for both carriers, and its response leaves the flag as it was.
C18_ColumnDetection ==
    /\ [](\A r \in Slots :
            AnsweredRows(lk[r]) =>
                /\ (CarrierColumn(lk[r]) = {} \/ ConsumptionColumn(lk[r]) = {}) =>
                      lk[r].res = [elecKwhPerHab |-> {}, gasKwhPerHab |-> {}]
                /\ Computed(lk[r]) =>
                      /\ ClampedQuotient(lk[r].res.elecKwhPerHab,
                                         KwhOf(lk[r], ElecLabels), Val(lk[r].population))
                      /\ ClampedQuotient(lk[r].res.gasKwhPerHab,
                                         KwhOf(lk[r], GasLabels), Val(lk[r].population)))
    /\ [][\A r \in Slots :
            (/\ lk[r].st = "wait"
             /\ AnsweredRows(lk'[r])
             /\ CarrierColumn(lk'[r]) = {} \/ ConsumptionColumn(lk'[r]) = {})
            => oreBlocked' = oreBlocked]_vars

\* a table with a carrier column but no consumption column: null for both
\* carriers, the flag still unset
C18_Witness ==
    /\ AnsweredRows(lk[1])
    /\ CarrierColumn(lk[1]) = {"filiere"}
    /\ ConsumptionColumn(lk[1]) = {}
    /\ lk[1].res = [elecKwhPerHab |-> {}, gasKwhPerHab |-> {}]
    /\ lk[1].sent
    /\ ~oreBlocked

\* every lookup of the call of slot r got rows that lack the carrier or the
\* consumption column
AllYearsMismatched(r) ==
    /\ lookups[r] # <<>>
    /\ \A k \in 1..Len(lookups[r]) : lookups[r][k].exit = "nocolumns"

\* C19 as stated: when the payloads lack a recognisable carrier or
\* consumption column, elecKwhPerHab and gasKwhPerHab of the record returned
\* are null, the fields of the other adapters being those of their adapters.
C19_MismatchGivesNullRecordFields ==
    \A r \in Slots :
        (pc[r] = "returned" /\ result[r] # {} /\ AllYearsMismatched(r)) =>
            /\ Val(result[r]).elecKwhPerHab = {}
            /\ Val(result[r]).gasKwhPerHab = {}
            /\ Val(result[r]).natureEventsCount = ev[r]["nature"].val
            /\ Val(result[r]).airQualityIndex = fetchAirQuality(Val(commune[r]).nom)

\* C19, amended: a lookup whose payload lacks a recognisable carrier or
\* consumption column returns null for both carriers and the fallback goes on
\* to the next year; when the payloads of all four years are such, the record
\* carries 3000 and 1500 with both estimated flags true; a record never has
\* both fields null; and every field of another adapter is that adapter's.
C19_MismatchGivesAverages ==
    /\ [](\A r \in Slots :
            /\ (lk[r].st = "ret" /\ lk[r].exit = "nocolumns") =>
                  lk[r].res = [elecKwhPerHab |-> {}, gasKwhPerHab |-> {}]
            /\ \A k \in 1..Len(lookups[r]) :
                  lookups[r][k].exit = "nocolumns" =>
                      /\ lookups[r][k].res = [elecKwhPerHab |-> {}, gasKwhPerHab |-> {}]
                      /\ k < Len(YEARS) /\ ~oreBlocked /\ pc[r] = "fanout" =>
                            /\ Len(net[r].eg) >= k + 1
                            /\ net[r].eg[k + 1] = YEARS[k + 1]
            /\ (pc[r] = "returned" /\ result[r] # {}) =>
                  /\ Val(result[r]).elecKwhPerHab # {} \/ Val(result[r]).gasKwhPerHab # {}
                  /\ RecordOfOwnAdapters(r)
                  /\ AllYearsMismatched(r) =>
                        /\ Len(lookups[r]) = 4
                        /\ IsFixedAverages(Val(result[r])))
    /\ [][\A r \in Slots : EnergyMoves(r) => (ev'[r] = ev[r] /\ syn'[r] = syn[r])]_vars

\* the four years answered rows without the columns; the record carries the
\* averages and a count from an events adapter
C19_Witness ==
    /\ pc[1] = "returned"
    /\ result[1] # {}
    /\ Len(lookups[1]) = 4
    /\ AllYearsMismatched(1)
    /\ Val(result[1]).elecKwhPerHab = {[n |-> 3000, d |-> 1]}
    /\ Val(result[1]).gasEstimated
    /\ Val(result[1]).publicEventsCount # {}

\* the water, waste and fuel placeholders the call of slot r computed
Placeholders(r) == Val(syn[r]).others

\* C20: two calls for the same INSEE code hold the same water, waste and
\* fuel placeholders, whatever their populations, the calls made before, the
\* flag and the upstreams' answers; for the code 75056 they are the values
\* FNV-1a gives for "75056:water", "75056:waste" and "75056:fuel" (78825,
\* 468, 410), and the record returned carries them.
C20_SameCodeSamePlaceholders ==
    /\ \A r1, r2 \in Slots :
          (/\ syn[r1] # {} /\ syn[r2] # {}
           /\ Val(commune[r1]).insee = Val(commune[r2]).insee)
          => Placeholders(r1) = Placeholders(r2)
    /\ \A r \in Slots :
          (syn[r] # {} /\ Val(commune[r]).insee = <<"7", "5", "0", "5", "6">>) =>
              /\ Placeholders(r) =
                    [waterLPerHab |-> 78825, wasteKgPerHab |-> 468, fuelLPerHab |-> 410,
                     waterEstimated |-> TRUE, wasteEstimated |-> TRUE,
                     fuelEstimated |-> TRUE]
              /\ (pc[r] = "returned" /\ result[r] # {}) =>
                    /\ Val(result[r]).waterLPerHab = {78825}
                    /\ Val(result[r]).wasteKgPerHab = {468}
                    /\ Val(result[r]).fuelLPerHab = {410}

\* two calls for the code 75056, one resolved with a population before the
\* flag was set, one without a population after it
C20_Witness ==
    /\ pc[1] = "returned" /\ pc[2] = "returned"
    /\ result[1] # {} /\ result[2] # {}
    /\ Val(commune[1]).population = {2}
    /\ Val(commune[2]).population = {}
    /\ Val(commune[1]).nom # Val(commune[2]).nom
    /\ ~Val(result[1]).elecEstimated
    /\ Val(result[2]).elecEstimated
    /\ lookups[2] = <<>>
    /\ oreBlocked

\* the numerator of a hash is a 32-bit unsigned integer: four bytes
IsUint32(h) == Len(h) = 4 /\ \A i \in 1..4 : h[i] \in 0..255

WaterSuffix == <<":", "w", "a", "t", "e", "r">>
WasteSuffix == <<":", "w", "a", "s", "t", "e">>
FuelSuffix == <<":", "f", "u", "e", "l">>

\* C21: for every INSEE code the hash numerators of code:water, code:waste
\* and code:fuel are within 0 .. 2^32 - 1, and the placeholders computed, and
\* those of the record, are integers with 38000 <= water <= 80000,
\* 240 <= waste <= 500 and 220 <= fuel <= 600; the codes 75433, 77223, 95010
\* and 77232 reach the ends 240, 500, 220 and 600.
C21_FixedBands ==
    \A r \in Slots :
        syn[r] # {} =>
            LET code == Val(commune[r]).insee
                o == Val(syn[r]).others
            IN  /\ IsUint32(hashUnitInterval(code \o WaterSuffix))
                /\ IsUint32(hashUnitInterval(code \o WasteSuffix))
                /\ IsUint32(hashUnitInterval(code \o FuelSuffix))
                /\ o.waterLPerHab \in 38000..80000
                /\ o.wasteKgPerHab \in 240..500
                /\ o.fuelLPerHab \in 220..600
                /\ code = <<"7", "5", "4", "3", "3">> => o.wasteKgPerHab = 240
                /\ code = <<"7", "7", "2", "2", "3">> => o.wasteKgPerHab = 500
                /\ code = <<"9", "5", "0", "1", "0">> => o.fuelLPerHab = 220
                /\ code = <<"7", "7", "2", "3", "2">> => o.fuelLPerHab = 600
                /\ (pc[r] = "returned" /\ result[r] # {}) =>
                      /\ Val(result[r]).waterLPerHab = {o.waterLPerHab}
                      /\ Val(result[r]).wasteKgPerHab = {o.wasteKgPerHab}
                      /\ Val(result[r]).fuelLPerHab = {o.fuelLPerHab}

\* the record of the commune 77232, whose fuel placeholder is the upper end
\* of its band
C21_Witness ==
    /\ pc[1] = "returned"
    /\ result[1] # {}
    /\ Val(result[1]).commune.insee = <<"7", "7", "2", "3", "2">>
    /\ Val(result[1]).waterLPerHab = {66240}
    /\ Val(result[1]).wasteKgPerHab = {340}
    /\ Val(result[1]).fuelLPerHab = {600}

\* the name the call of slot r was given has a character that is not white
\* space
NamedCall(r) ==
    /\ input[r] # {}
    /\ \E i \in 1..Len(Val(input[r])) : Val(input[r])[i] \notin WhiteSpace

\* C22: in one call, the resolver has sent exactly one request when the
\* trimmed name is not empty and none otherwise; once the commune is
\* resolved each events adapter has sent exactly one request, also after its
\* request failed; the results of the synthetic adapters are there before
\* any upstream has answered; the energy adapter has sent at most one
\* request for each year of its list, at most four in all.
C22_SingleAttempt ==
    \A r \in Slots :
        /\ net[r].geo = (IF NamedCall(r) THEN 1 ELSE 0)
        /\ \A a \in EventAdapters :
              /\ net[r].ev[a] = (IF commune[r] # {} THEN 1 ELSE 0)
              /\ ev[r][a].st \in {"pending", "fulfilled", "rejected"} => net[r].ev[a] = 1
        /\ pc[r] = "fanout" => syn[r] # {}
        /\ Len(net[r].eg) <= 4
        /\ \A k \in 1..Len(net[r].eg) :
              /\ net[r].eg[k] \in {2024, 2023, 2022, 2021}
              /\ \A j \in 1..Len(net[r].eg) : j # k => net[r].eg[j] # net[r].eg[k]
        /\ commune[r] = {} => net[r].eg = <<>>

\* a call that returned a record after one request to the registry, one to
\* each events upstream, nature's count being null, and four to the energy
\* upstream
C22_Witness ==
    /\ pc[1] = "returned"
    /\ result[1] # {}
    /\ net[1].geo = 1
    /\ \A a \in EventAdapters : net[1].ev[a] = 1
    /\ Val(result[1]).natureEventsCount = {}
    /\ net[1].eg = <<2024, 2023, 2022, 2021>>

\* the two estimated flags of e agree; set, the values are 3000 and 1500;
\* unset, one value at least is not null
FlagsAgreeWithValues(e) ==
    /\ e.elecEstimated = e.gasEstimated
    /\ e.elecEstimated =>
          /\ e.elecKwhPerHab = {[n |-> 3000, d |-> 1]}
          /\ e.gasKwhPerHab = {[n |-> 1500, d |-> 1]}
    /\ ~e.elecEstimated => (e.elecKwhPerHab # {} \/ e.gasKwhPerHab # {})
    /\ ~(e.elecKwhPerHab = {} /\ e.gasKwhPerHab = {})

\* C23: in every result of fetchElecGasPerHabWithFallback and in every
\* record returned, elecEstimated equals gasEstimated; when they are true
\* the values are 3000 and 1500; when they are false at least one value is
\* not null; the two values are never both null.
C23_EstimatedFlagsAgree ==
    \A r \in Slots :
        /\ eg[r].st = "fulfilled" => FlagsAgreeWithValues(Val(eg[r].val))
        /\ (pc[r] = "returned" /\ result[r] # {}) =>
              /\ FlagsAgreeWithValues(Val(result[r]))
              /\ Val(result[r]).elecEstimated = Val(eg[r].val).elecEstimated
              /\ Val(result[r]).elecKwhPerHab = Val(eg[r].val).elecKwhPerHab
              /\ Val(result[r]).gasKwhPerHab = Val(eg[r].val).gasKwhPerHab

\* a record with measured values of which electricity, above the ceiling,
\* is null and gas is 1000
C23_Witness ==
    /\ pc[1] = "returned"
    /\ result[1] # {}
    /\ ~Val(result[1]).elecEstimated
    /\ ~Val(result[1]).gasEstimated
    /\ Val(result[1]).elecKwhPerHab = {}
    /\ Val(result[1]).gasKwhPerHab = {[n |-> 1000, d |-> 1]}

\* a response without a usable body: a network fault, a status that is not
\* OK, a text that is not JSON, or a JSON value that is falsy
WithoutUsableBody(o) ==
    \/ o.kind \in {"neterr", "status", "notjson"}
    \/ /\ o.kind = "json"
       /\ o.body \in {[t |-> "null"], [t |-> "num", n |-> 0], [t |-> "str", s |-> ""],
                      [t |-> "bool", b |-> FALSE]}

\* the return statements of fetchElecGasPerHab behind a usable body
UsableExits == {"norows", "nocolumns", "nopopulation", "computed"}

\* C24: the flag changes only from false to true, and only in the step in
\* which a lookup receives a response without a usable body; a lookup that
\* returns on a usable body (no rows, columns not found, no positive
\* population, values computed, implausible or not) leaves the flag as it
\* was, and a usable body never ends in the "nodata" return.
C24_FlagSetOnlyByNoUsableBody ==
    /\ [](\A r \in Slots :
            (lk[r].st = "ret" /\ lk[r].got # {}) =>
                /\ WithoutUsableBody(Val(lk[r].got)) <=> lk[r].exit = "nodata"
                /\ ~WithoutUsableBody(Val(lk[r].got)) <=> lk[r].exit \in UsableExits
                /\ WithoutUsableBody(Val(lk[r].got)) => oreBlocked)
    /\ [][/\ oreBlocked' # oreBlocked =>
              /\ oreBlocked'
              /\ \E r \in Slots :
                    /\ lk[r].st = "wait" /\ lk'[r].st = "ret"
                    /\ WithoutUsableBody(Val(lk'[r].got))
          /\ \A r \in Slots :
                (lk[r].st = "wait" /\ lk'[r].st = "ret" /\ lk'[r].exit \in UsableExits)
                    => oreBlocked' = oreBlocked]_vars

\* a lookup for two inhabitants whose two values are above the ceiling has
\* returned null for both and the flag is not set
C24_Witness ==
    /\ ~oreBlocked
    /\ lk[1].st = "ret"
    /\ lk[1].exit = "computed"
    /\ lk[1].population = {2}
    /\ lk[1].res = [elecKwhPerHab |-> {}, gasKwhPerHab |-> {}]

NullForBoth == [elecKwhPerHab |-> {}, gasKwhPerHab |-> {}]

\* C25: within one call of the fallback, a lookup whose request ended
\* without a usable body is the last one: no request for a later year has
\* been sent and the call has returned the fixed averages; every request
\* but the first follows a lookup whose response was usable and gave null
\* for both carriers.
C25_NoLaterYearAfterFailure ==
    \A r \in Slots :
        LET sent == net[r].eg
            done == lookups[r]
        IN  /\ \A k \in 1..Len(done) :
                  done[k].exit = "nodata" =>
                      /\ k = Len(done)
                      /\ Len(sent) = k
                      /\ eg[r].st = "fulfilled"
                      /\ IsFixedAverages(Val(eg[r].val))
            /\ (lk[r].st = "ret" /\ lk[r].got # {} /\ WithoutUsableBody(Val(lk[r].got))) =>
                  /\ oreBlocked
                  /\ Len(sent) = Len(done) + 1
            /\ \A k \in 2..Len(sent) :
                  /\ k - 1 <= Len(done)
                  /\ done[k - 1].exit \in UsableExits
                  /\ done[k - 1].res = NullForBoth
                  /\ done[k - 1].year = sent[k - 1]

\* 2024 answered no rows and the request for 2023 failed: two requests were
\* sent, none for 2022 and 2021, and the call returned the averages
C25_Witness ==
    /\ pc[1] = "fanout"
    /\ eg[1].st = "fulfilled"
    /\ Len(lookups[1]) = 2
    /\ lookups[1][1].exit = "norows"
    /\ lookups[1][2].exit = "nodata"
    /\ net[1].eg = <<2024, 2023>>
    /\ Val(eg[1].val).elecEstimated

\* no row of the lookup's table is labelled with one of the labels
NoRowOf(l, labels) ==
    \A i \in 1..Len(RowsOf(l)) :
        LET cell == Get(RowsOf(l)[i], Val(CarrierColumn(l)))
        IN  cell.t # "str" \/ cell.s \notin labels

\* the reasons for which a usable response gives no value at all
SkipCause(l) ==
    \/ RowsOf(l) = <<>>
    \/ CarrierColumn(l) = {} \/ ConsumptionColumn(l) = {}
    \/ l.population = {} \/ Val(l.population) <= 0
    \/ /\ KwhOf(l, ElecLabels) > 20000 * Val(l.population)
       /\ KwhOf(l, GasLabels) > 20000 * Val(l.population)

\* the fallback loop of slot r takes the result of its lookup in this step
TakesResult(r) == lookups'[r] # lookups[r] /\ lookups'[r] # <<>>

\* C26: a lookup that computed its quotients gives 0, not null, to a
\* carrier none of whose rows matches; the fallback loop accepts a year's
\* usable response, returning its values with both estimated flags false,
\* unless the rows are empty, a column is not found, the population is
\* missing or not positive, or both carriers are above the ceiling, and only
\* then does it go past the year.
C26_NoRowGivesZeroAndSuccess ==
    /\ [](\A r \in Slots :
            Computed(lk[r]) =>
                /\ NoRowOf(lk[r], ElecLabels) => lk[r].res.elecKwhPerHab = {[n |-> 0, d |-> 1]}
                /\ NoRowOf(lk[r], GasLabels) => lk[r].res.gasKwhPerHab = {[n |-> 0, d |-> 1]})
    /\ [][\A r \in Slots :
            (TakesResult(r) /\ ~WithoutUsableBody(Val(lk[r].got))) =>
                IF SkipCause(lk[r])
                THEN \/ eg'[r].st = "running" /\ eg'[r].i = eg[r].i + 1
                        /\ lk'[r].year = YEARS[eg[r].i + 1]
                     \/ eg'[r].st = "fulfilled" /\ eg[r].i = 4
                        /\ IsFixedAverages(Val(eg'[r].val))
                ELSE /\ eg'[r].st = "fulfilled"
                     /\ Val(eg'[r].val) =
                           [elecKwhPerHab |-> lk[r].res.elecKwhPerHab,
                            gasKwhPerHab |-> lk[r].res.gasKwhPerHab,
                            elecEstimated |-> FALSE, gasEstimated |-> FALSE]
                     /\ lk[r].res # NullForBoth]_vars

\* the table of 2024 held one row, of heat: the record carries 0 for
\* electricity and for gas, measured, after a single request
C26_Witness ==
    /\ pc[1] = "returned"
    /\ result[1] # {}
    /\ Val(result[1]).elecKwhPerHab = {[n |-> 0, d |-> 1]}
    /\ Val(result[1]).gasKwhPerHab = {[n |-> 0, d |-> 1]}
    /\ ~Val(result[1]).elecEstimated
    /\ ~Val(result[1]).gasEstimated
    /\ net[1].eg = <<2024>>
    /\ lookups[1][1].exit = "computed"

\* the values FNV-1a gives for the communes of the model: air-quality
\* index, renewable share, water, waste and fuel placeholders
ReferenceValues(nom) ==
    CASE nom = <<"P", "a", "r", "i", "s">> -> <<114, 29, 78825, 468, 410>>
      [] nom = <<"C", "e", "r", "g", "y">> -> <<85, 31, 45635, 476, 240>>
      [] nom = <<"O", "r", "s", "a", "y">> -> <<122, 23, 77160, 408, 538>>
      [] OTHER -> <<107, 27, 64443, 412, 506>>

\* C27: in every record returned, gesEmissionsTonsPerHab and
\* waterConsumLPerHab are null exactly when the commune's population is null
\* or not positive; airQualityIndex, renewableEnergyPct, waterLPerHab,
\* wasteKgPerHab and fuelLPerHab are not null; the three estimated flags are
\* true; the values are those the commune alone determines, whatever the
\* upstreams answered, and no answer of an upstream changes them.
C27_SyntheticNullness ==
    /\ [](\A r \in Slots :
            (pc[r] = "returned" /\ result[r] # {}) =>
                LET rec == Val(result[r])
                    population == rec.commune.population
                    unpopulated == population = {} \/ (\A n \in population : n <= 0)
                    ref == ReferenceValues(rec.commune.nom)
                IN  /\ rec.gesEmissionsTonsPerHab = {} <=> unpopulated
                    /\ rec.waterConsumLPerHab = {} <=> unpopulated
                    /\ rec.commune.nom = <<"P", "a", "r", "i", "s">> =>
                          /\ rec.gesEmissionsTonsPerHab = {282}
                          /\ rec.waterConsumLPerHab = {160}
                    /\ rec.airQualityIndex = {ref[1]}
                    /\ rec.renewableEnergyPct = {ref[2]}
                    /\ rec.waterLPerHab = {ref[3]}
                    /\ rec.wasteKgPerHab = {ref[4]}
                    /\ rec.fuelLPerHab = {ref[5]}
                    /\ rec.waterEstimated /\ rec.wasteEstimated /\ rec.fuelEstimated)
    /\ [][\A r \in Slots :
            (pc[r] = "fanout" /\ pc'[r] \in {"fanout", "returned"}) =>
                /\ syn'[r] = syn[r]
                /\ syn[r] # {}
                /\ pc'[r] = "returned" =>
                      /\ Val(result'[r]).airQualityIndex = Val(syn[r]).airQuality
                      /\ Val(result'[r]).gesEmissionsTonsPerHab = Val(syn[r]).ges]_vars

\* the record of a commune of population 0 whose nature events count is null
\* and whose energy values are the averages: no emissions and no daily
\* water, and an air-quality index of 122
C27_Witness ==
    /\ pc[1] = "returned"
    /\ result[1] # {}
    /\ Val(result[1]).commune.population = {0}
    /\ Val(result[1]).gesEmissionsTonsPerHab = {}
    /\ Val(result[1]).waterConsumLPerHab = {}
    /\ Val(result[1]).airQualityIndex = {122}
    /\ Val(result[1]).natureEventsCount = {}
    /\ Val(result[1]).elecEstimated

\* the column names that contain kwh, and mwh, whatever the case
NamesWithKwh == {"consommation_kwh", "conso_kwh", "CONSO_KWH"}
NamesWithMwh == {"consommation_mwh", "conso_mwh", "Conso_MWh"}

\* the first of the names that is in the set S
FirstNameIn(names, S) ==
    names[CHOOSE n \in 1..Len(names) :
            names[n] \in S /\ \A m \in 1..(n - 1) : names[m] \notin S]

\* the table of the lookup has a column of each unit
BothUnits(l) ==
    LET names == FieldNames(RowsOf(l)[1])
    IN  /\ \E n \in 1..Len(names) : names[n] \in NamesWithKwh
        /\ \E n \in 1..Len(names) : names[n] \in NamesWithMwh

\* the result of the lookup is computed from the given column, its values
\* multiplied by factor
ComputedFrom(l, column, factor) ==
    /\ ClampedQuotient(l.res.elecKwhPerHab,
           factor * RawSum(RowsOf(l), Val(CarrierColumn(l)), column, ElecLabels),
           Val(l.population))
    /\ ClampedQuotient(l.res.gasKwhPerHab,
           factor * RawSum(RowsOf(l), Val(CarrierColumn(l)), column, GasLabels),
           Val(l.population))

\* the factor the name of a column calls for
UnitFactor(column) == IF column \in NamesWithKwh THEN 1 ELSE 1000

\* C28 as stated: the values of a kWh column are summed as they are, those
\* of an MWh column or of a column without a unit are multiplied by 1000,
\* and when the table has columns of both units the MWh column is the one
\* the result is computed from.
C28_MwhColumnSelected ==
    \A r \in Slots :
        Computed(lk[r]) =>
            LET names == FieldNames(RowsOf(lk[r])[1])
            IN  IF BothUnits(lk[r])
                THEN ComputedFrom(lk[r], FirstNameIn(names, NamesWithMwh), 1000)
                ELSE ComputedFrom(lk[r], Val(ConsumptionColumn(lk[r])),
                                  UnitFactor(Val(ConsumptionColumn(lk[r]))))

\* C28, amended: the values of a column whose name contains kwh are summed
\* as they are, those of any other column are multiplied by 1000; when the
\* table has columns of both units, the result is computed from the MWh
\* column, unless a column is named consommation...kwh and none is named
\* consommation...mwh: then it is computed from that kWh column, unscaled.
C28_UnitFollowsPatternOrder ==
    \A r \in Slots :
        Computed(lk[r]) =>
            LET names == FieldNames(RowsOf(lk[r])[1])
                kwhFirst ==
                    /\ \E n \in 1..Len(names) : names[n] = "consommation_kwh"
                    /\ \A n \in 1..Len(names) : names[n] # "consommation_mwh"
            IN  IF BothUnits(lk[r])
                THEN IF kwhFirst
                     THEN ComputedFrom(lk[r], "consommation_kwh", 1)
                     ELSE ComputedFrom(lk[r], FirstNameIn(names, NamesWithMwh), 1000)
                ELSE ComputedFrom(lk[r], Val(ConsumptionColumn(lk[r])),
                                  UnitFactor(Val(ConsumptionColumn(lk[r]))))

\* a table with the columns conso_mwh (3 and 2) and consommation_kwh (7000
\* and 5000), for two inhabitants: the result is 3500 and 2500, from the
\* kWh column, not 1500 and 1000
C28_Witness ==
    /\ Computed(lk[1])
    /\ lk[1].population = {2}
    /\ FieldNames(RowsOf(lk[1])[1]) = <<"filiere", "conso_mwh", "consommation_kwh">>
    /\ lk[1].res.elecKwhPerHab = {[n |-> 3500, d |-> 1]}
    /\ lk[1].res.gasKwhPerHab = {[n |-> 2500, d |-> 1]}

\* the commune and the fields that are not energy fields of the record a
\* call for Paris, and for Cergy, returns when it runs alone
AloneParis ==
    [commune |-> [nom |-> <<"P", "a", "r", "i", "s">>,
                  insee |-> <<"7", "5", "0", "5", "6">>,
                  population |-> {2}, departementNom |-> "Paris"],
     natureEventsCount |-> {}, publicEventsCount |-> {1}, publicEcoEventsCount |-> {},
     waterLPerHab |-> {78825}, wasteKgPerHab |-> {468}, fuelLPerHab |-> {410},
     waterEstimated |-> TRUE, wasteEstimated |-> TRUE, fuelEstimated |-> TRUE,
     gesEmissionsTonsPerHab |-> {282}, waterConsumLPerHab |-> {160},
     airQualityIndex |-> {114}, renewableEnergyPct |-> {29}]
AloneCergy ==
    [commune |-> [nom |-> <<"C", "e", "r", "g", "y">>,
                  insee |-> <<"9", "5", "1", "2", "7">>,
                  population |-> {}, departementNom |-> "Val-d'Oise"],
     natureEventsCount |-> {}, publicEventsCount |-> {1}, publicEcoEventsCount |-> {},
     waterLPerHab |-> {45635}, wasteKgPerHab |-> {476}, fuelLPerHab |-> {240},
     waterEstimated |-> TRUE, wasteEstimated |-> TRUE, fuelEstimated |-> TRUE,
     gesEmissionsTonsPerHab |-> {}, waterConsumLPerHab |-> {},
     airQualityIndex |-> {85}, renewableEnergyPct |-> {31}]

EnergyFields == {"elecKwhPerHab", "gasKwhPerHab", "elecEstimated", "gasEstimated"}
Energy(rec) == [f \in EnergyFields |-> rec[f]]
OtherFields(rec) == [f \in (DOMAIN rec) \ EnergyFields |-> rec[f]]

\* the energy fields of the record of Paris when its call runs alone: the
\* rows of 2023, 4 and 2 MWh for 2 inhabitants
AloneParisEnergy ==
    [elecKwhPerHab |-> {[n |-> 2000, d |-> 1]}, gasKwhPerHab |-> {[n |-> 1000, d |-> 1]},
     elecEstimated |-> FALSE, gasEstimated |-> FALSE]
AveragesEnergy ==
    [elecKwhPerHab |-> {[n |-> 3000, d |-> 1]}, gasKwhPerHab |-> {[n |-> 1500, d |-> 1]},
     elecEstimated |-> TRUE, gasEstimated |-> TRUE]

\* C29: the upstreams answering each request in one way, a call returns the
\* commune and the non-energy fields it returns when it runs alone,
\* whatever calls ran before or run at the same time and in whatever order
\* the responses arrive; its energy fields are those of its run alone or the
\* fixed averages, and they are not those of its run alone only when the
\* flag is set and none of its own requests failed.
C29_NonInterference ==
    \A r \in Slots :
        pc[r] = "returned" =>
            /\ result[r] # {}
            /\ input[r] = {<<"P", "a", "r", "i", "s">>} =>
                  /\ OtherFields(Val(result[r])) = AloneParis
                  /\ Energy(Val(result[r])) \in {AloneParisEnergy, AveragesEnergy}
                  /\ Energy(Val(result[r])) # AloneParisEnergy =>
                        /\ oreBlocked
                        /\ \A k \in 1..Len(lookups[r]) : lookups[r][k].exit # "nodata"
            /\ input[r] = {<<"C", "e", "r", "g", "y">>} =>
                  /\ OtherFields(Val(result[r])) = AloneCergy
                  /\ Energy(Val(result[r])) = AveragesEnergy

\* two calls have returned: the one for Cergy, whose request for 2024 was
\* refused, and the one for Paris, which got no row for 2024, sent no
\* request for 2023 and carries the averages in place of 2000 and 1000
C29_Witness ==
    /\ pc[1] = "returned" /\ pc[2] = "returned"
    /\ input[1] = {<<"P", "a", "r", "i", "s">>}
    /\ input[2] = {<<"C", "e", "r", "g", "y">>}
    /\ net[1].eg = <<2024>>
    /\ Len(lookups[1]) = 1
    /\ lookups[2][1].exit = "nodata"
    /\ OtherFields(Val(result[1])) = AloneParis
    /\ Energy(Val(result[1])) = AveragesEnergy

\* the number of characters of s between its leading and trailing white
\* space
TrimmedLength(s) ==
    IF \A i \in 1..Len(s) : s[i] \in WhiteSpace THEN 0
    ELSE LET first == CHOOSE i \in 1..Len(s) :
                        s[i] \notin WhiteSpace /\ \A j \in 1..(i - 1) : s[j] \in WhiteSpace
             last == CHOOSE i \in 1..Len(s) :
                        s[i] \notin WhiteSpace /\ \A j \in (i + 1)..Len(s) : s[j] \in WhiteSpace
         IN  last - first + 1

\* C30: onCompare starts only with loading false and two names of at least
\* 2 characters once trimmed; while it runs, loading is true and a, b and
\* error are null; when it has run to its end, loading is false and either a
\* and b are the two records and error is null, or a and b are null and
\* error is set; a and b are never one set and one null.
C30_BothOrNeither ==
    /\ [](/\ (screen.a = {}) = (screen.b = {})
          /\ screen.loading <=> screen.at = "await"
          /\ screen.at = "await" =>
                (screen.a = {} /\ screen.b = {} /\ screen.error = {})
          /\ screen.a # {} => screen.error = {})
    /\ [][/\ (screen.at = "idle" /\ screen'.at = "await") =>
                /\ ~screen.loading
                /\ TrimmedLength(screen.cityA) >= 2
                /\ TrimmedLength(screen.cityB) >= 2
                /\ input'[1] = {screen.cityA} /\ input'[2] = {screen.cityB}
          /\ (screen.at = "await" /\ screen'.at = "idle") =>
                /\ ~screen'.loading
                /\ IF result[1] # {} /\ result[2] # {}
                   THEN /\ screen'.a = result[1] /\ screen'.b = result[2]
                        /\ screen'.error = {}
                   ELSE /\ screen'.a = {} /\ screen'.b = {}
                        /\ screen'.error # {}]_vars

\* a comparison has ended with Paris found for the first name and no commune
\* of the region for the second: nothing is shown but the error
C30_Witness ==
    /\ screen.at = "idle"
    /\ ~screen.loading
    /\ result[1] # {}
    /\ result[2] = {}
    /\ pc[1] = "returned" /\ pc[2] = "returned"
    /\ screen.a = {} /\ screen.b = {}
    /\ screen.error = {"notfound"}

====
